---- MODULE Spec2Model ----
(***************************************************************************)
(* Streaming text-repair and delivery pipeline of the chat service:        *)
(* the Markdown repair engine (app/chat/markdown_utils.py), the            *)
(* incremental normalizer (app/chat/utils.py) and the streaming generators *)
(* of start_chat / send_chat (app/chat/service.py).                        *)
(*                                                                         *)
(* A text is a sequence of characters; a character is a one-character      *)
(* string, or "uXXXX" for the code point U+XXXX (every character outside   *)
(* ASCII, and the backtick U+0060).                                        *)
(***************************************************************************)
EXTENDS Integers, Sequences, FiniteSets, TLC

(***************************************************************************)
(* Characters and character classes                                        *)
(***************************************************************************)

\* Python's \s and str.strip() whitespace that the texts here can hold
WS == {" ", "\t", "\n", "\r"}

\* the class of re.sub("[\u200b\u200c\u200d\ufeff]", "", s)
ZERO_WIDTH == {"u200b", "u200c", "u200d", "ufeff"}

DIGITS == {"0", "1", "2", "3", "4", "5", "6", "7", "8", "9"}

\* the characters in 'U+4E00 '..'U+9FFF ' that the texts here can hold:
\* U+5E74 U+67F1 U+6708 U+65E5 U+65F6 U+8D77 U+8FD0 U+5927 U+6D41 U+547D U+4E3B U+6027 U+522B U+683C U+5C40 U+559C U+7528 U+5FCC U+795E U+8D22 U+661F U+5B98 U+5370 U+98DF U+4F24 U+6BD4 U+52AB U+4E8B U+4E1A U+611F U+60C5 U+5A5A U+59FB U+5065 U+5EB7  U+70B9 U+6790 U+89C8  U+4E2D U+6587
\* U+4ECA U+5929 U+5409 U+975E U+5E38 U+79EF U+6781 U+597D
\* U+51FA U+751F U+7ED3 U+6784 U+4E2A U+4EBA U+753B U+50CF U+603B U+4E59 U+5DF3 U+5206 U+5F00 U+6717 U+6B63
CJK == {"u5e74", "u67f1", "u6708", "u65e5", "u65f6", "u8d77", "u8fd0", "u5927",
        "u6d41", "u547d", "u4e3b", "u6027", "u522b", "u683c", "u5c40", "u559c",
        "u7528", "u5fcc", "u795e", "u8d22", "u661f", "u5b98", "u5370", "u98df",
        "u4f24", "u6bd4", "u52ab", "u4e8b", "u4e1a", "u60c5", "u611f", "u5a5a",
        "u59fb", "u5065", "u5eb7", "u70b9", "u6790", "u89c8", "u4e2d", "u6587",
        "u4eca", "u5929", "u5409", "u975e", "u5e38", "u79ef", "u6781", "u597d",
        "u51fa", "u751f", "u7ed3", "u6784", "u4e2a", "u4eba", "u753b", "u50cf",
        "u603b", "u4e59", "u5df3", "u5206", "u5f00", "u6717", "u6b63"}

\* 'U+FF0C U+3002 U+FF01 U+FF1F U+3001 U+FF1B U+FF1A ""' 'U+FF08 U+FF09 U+3010 U+3011 ' of _ensure_heading_blocks
HEADING_TAIL_PUNCT == {"uff0c", "u3002", "uff01", "uff1f", "u3001", "uff1b", "uff1a",
                       "\"", "uff08", "uff09", "u3010", "u3011"}

_TAIL_TOKENS == {"u70b9", "u6790", "u89c8", ")", "uff09", "]", "u3011", "?", "uff1f",
                 "!", "uff01", ":", "uff1a", "u2014"}

_EXCLUDE_PREFIXES ==
    { <<"u5e74", "u67f1">>, <<"u6708", "u67f1">>, <<"u65e5", "u67f1">>, <<"u65f6", "u67f1">>,
      <<"u8d77", "u8fd0">>, <<"u5927", "u8fd0">>, <<"u6d41", "u5e74">>,
      <<"u547d", "u4e3b">>, <<"u65e5", "u4e3b">>, <<"u6027", "u522b">>, <<"u683c", "u5c40">>,
      <<"u559c", "u7528">>, <<"u5fcc", "u795e">>,
      <<"u8d22", "u661f">>, <<"u5b98", "u661f">>, <<"u5370", "u661f">>, <<"u98df", "u4f24">>,
      <<"u6bd4", "u52ab">>,
      <<"u4e8b", "u4e1a">>, <<"u8d22", "u8fd0">>, <<"u611f", "u60c5">>, <<"u5a5a", "u59fb">>,
      <<"u5065", "u5eb7">> }

\* the labels of _HEADING_KEYWORD_SPLIT: U+5E74 U+67F1 |U+6708 U+67F1 |U+65E5 U+67F1 |U+65F6 U+67F1 |U+6027 U+522B |U+8D77 U+8FD0 |U+5927 U+8FD0 |U+6D41 U+5E74 |U+547D U+4E3B |U+65E5 U+4E3B 
HEADING_KEYWORDS ==
    { <<"u5e74", "u67f1">>, <<"u6708", "u67f1">>, <<"u65e5", "u67f1">>, <<"u65f6", "u67f1">>,
      <<"u6027", "u522b">>, <<"u8d77", "u8fd0">>, <<"u5927", "u8fd0">>, <<"u6d41", "u5e74">>,
      <<"u547d", "u4e3b">>, <<"u65e5", "u4e3b">> }

SHORT_LINE_MAX == 24
TAIL_MERGE_MAX == 5
MAX_HASHES == 6
MAX_INDENT == 3

(***************************************************************************)
(* String primitives (str.strip, str.split, str.join, str.replace, ...)    *)
(***************************************************************************)

Sub(s, i, j) == IF j < i THEN << >> ELSE SubSeq(s, i, j)

\* s[i:] starts with pat (i is 1-based)
StartsWithAt(s, i, pat) ==
    /\ i >= 1
    /\ i + Len(pat) - 1 <= Len(s)
    /\ \A k \in 1..Len(pat) : s[i + k - 1] = pat[k]

\* the least k in i..n with P(k), n + 1 if there is none (a left-to-right scan)
FirstIndex(i, n, P(_)) ==
    IF i > n THEN i
    ELSE CHOOSE k \in i..(n + 1) : /\ k = n + 1 \/ P(k)
                                   /\ \A u \in i..(k - 1) : ~P(u)

\* the greatest k in 1..i with P(k), 0 if there is none (a right-to-left scan)
LastIndex(i, P(_)) ==
    IF i < 1 THEN 0
    ELSE CHOOSE k \in 0..i : /\ k = 0 \/ P(k)
                             /\ \A u \in (k + 1)..i : ~P(u)

\* the first index >= i of s whose character is not in the class (Len(s)+1 if none)
SkipWhile(s, i, class) ==
    IF i > Len(s) THEN i ELSE FirstIndex(i, Len(s), LAMBDA k : s[k] \notin class)

\* the last index <= i of s whose character is not in the class (0 if none)
SkipBack(s, i, class) == LastIndex(i, LAMBDA k : s[k] \notin class)

\* str.strip()
Strip(s) == Sub(s, SkipWhile(s, 1, WS), SkipBack(s, Len(s), WS))

\* str.rstrip()
RStrip(s) == Sub(s, 1, SkipBack(s, Len(s), WS))

\* the first index >= i of s holding c (Len(s)+1, or i beyond the end, if none)
FindChar(s, i, c) ==
    IF i > Len(s) THEN i ELSE FirstIndex(i, Len(s), LAMBDA k : s[k] = c)

RECURSIVE SplitFrom(_, _, _)
SplitFrom(s, i, sep) ==
    LET j == FindChar(s, i, sep)
    IN  IF j > Len(s) THEN << Sub(s, i, Len(s)) >>
        ELSE << Sub(s, i, j - 1) >> \o SplitFrom(s, j + 1, sep)

\* s.split("\n")
SplitLines(s) == SplitFrom(s, 1, "\n")

RECURSIVE JoinRange(_, _, _, _)
\* sep.join(parts[lo..hi]), by halves
JoinRange(parts, lo, hi, sep) ==
    IF lo > hi THEN << >>
    ELSE IF lo = hi THEN parts[lo]
    ELSE LET mid == (lo + hi) \div 2
         IN  JoinRange(parts, lo, mid, sep) \o sep \o JoinRange(parts, mid + 1, hi, sep)

\* sep.join(parts)
Join(parts, sep) == JoinRange(parts, 1, Len(parts), sep)

\* "".join(parts)
Concat(parts) == Join(parts, << >>)

\* the first index >= i where pat occurs in s (0 if none)
FindSeq(s, i, pat) ==
    LET last == Len(s) - Len(pat) + 1
        k    == FirstIndex(i, last, LAMBDA x : StartsWithAt(s, x, pat))
    IN  IF i > last \/ k > last THEN 0 ELSE k

RECURSIVE ReplaceFrom(_, _, _, _)
\* left to right, non-overlapping
ReplaceFrom(s, i, pat, rep) ==
    LET k == FindSeq(s, i, pat)
    IN  IF k = 0 THEN Sub(s, i, Len(s))
        ELSE Sub(s, i, k - 1) \o rep \o ReplaceFrom(s, k + Len(pat), pat, rep)

\* s.replace(pat, rep) for a non-empty pat
Replace(s, pat, rep) == ReplaceFrom(s, 1, pat, rep)

RemoveChars(s, class) == SelectSeq(s, LAMBDA c : c \notin class)

RECURSIVE DecimalDigits(_)
\* str(n) for n >= 0
DecimalDigits(n) ==
    LET d == CHOOSE c \in DIGITS :
                 c = <<"0", "1", "2", "3", "4", "5", "6", "7", "8", "9">>[(n % 10) + 1]
    IN  IF n < 10 THEN << d >> ELSE DecimalDigits(n \div 10) \o << d >>

NEWLINES3 == <<"\n", "\n", "\n">>

RECURSIVE CollapseNewlinesFrom(_, _)
CollapseNewlinesFrom(s, i) ==
    LET k == FindSeq(s, i, NEWLINES3)
    IN  IF k = 0 THEN Sub(s, i, Len(s))
        ELSE Sub(s, i, k - 1) \o <<"\n", "\n">>
             \o CollapseNewlinesFrom(s, SkipWhile(s, k, {"\n"}))

\* re.sub(r"\n{3,}", "\n\n", s)
CollapseBlankLines(s) == CollapseNewlinesFrom(s, 1)

(***************************************************************************)
(* Placeholder protection                                                  *)
(***************************************************************************)

BACKTICKS3 == <<"u0060", "u0060", "u0060">>

\* _RE_FENCED = <3 backticks>.*?<3 backticks> (DOTALL): the end of the match that starts at i, 0 if none
_RE_FENCED(s, i) ==
    IF ~StartsWithAt(s, i, BACKTICKS3) THEN 0
    ELSE LET j == FindSeq(s, i + 3, BACKTICKS3)
         IN  IF j = 0 THEN 0 ELSE j + 2

\* _RE_INLINE = <backtick>[^<backtick>\n]*<backtick> : the end of the match that starts at i, 0 if none
_RE_INLINE(s, i) ==
    IF ~(i <= Len(s) /\ s[i] = "u0060") THEN 0
    ELSE LET j == IF i + 1 > Len(s) THEN i + 1
                  ELSE FirstIndex(i + 1, Len(s), LAMBDA k : s[k] \in {"u0060", "\n"})
         IN  IF j <= Len(s) /\ s[j] = "u0060" THEN j ELSE 0

RegexMatchEnd(regex, s, i) ==
    IF regex = "_RE_FENCED" THEN _RE_FENCED(s, i) ELSE _RE_INLINE(s, i)

\* f"@@{tag}{n}@@"
PlaceholderTag(tag, n) == <<"@", "@", tag>> \o DecimalDigits(n) \o <<"@", "@">>

RECURSIVE ExtractFrom(_, _, _, _, _)
\* regex.sub(_repl, s) from index i on, with the matches stored so far
ExtractFrom(s, i, regex, tag, store) ==
    LET k == IF i > Len(s) THEN i
             ELSE FirstIndex(i, Len(s), LAMBDA x : RegexMatchEnd(regex, s, x) # 0)
    IN  IF k > Len(s) THEN [text |-> Sub(s, i, Len(s)), store |-> store]
        ELSE LET e == RegexMatchEnd(regex, s, k)
                 r == ExtractFrom(s, e + 1, regex, tag, Append(store, Sub(s, k, e)))
             IN  [text  |-> Sub(s, i, k - 1) \o PlaceholderTag(tag, Len(store)) \o r.text,
                  store |-> r.store]

_extract_placeholders(s, regex, tag) == ExtractFrom(s, 1, regex, tag, << >>)

RECURSIVE RestoreFrom(_, _, _, _)
RestoreFrom(s, store, tag, i) ==
    IF i > Len(store) THEN s
    ELSE RestoreFrom(Replace(s, PlaceholderTag(tag, i - 1), store[i]), store, tag, i + 1)

\* a variant that puts nothing back
_restore_placeholders_none(s, store, tag) == s

_restore_placeholders(s, store, tag) == RestoreFrom(s, store, tag, 1)

(***************************************************************************)
(* Bracket balance                                                         *)
(***************************************************************************)

\* pairs = {")":"(", "U+FF09 ":"U+FF08 ", "]":"[", "U+3011 ":"U+3010 "}
PairOf(ch) ==
    CASE ch = ")"     -> "("
      [] ch = "uff09" -> "uff08"
      [] ch = "]"     -> "["
      [] ch = "u3011" -> "u3010"

CLOSERS == {")", "uff09", "]", "u3011"}
LEFTS == {PairOf(c) : c \in CLOSERS}

RECURSIVE ParenScan(_, _, _)
\* the for loop from the next bracket character at or after index i
ParenScan(text, i, stack) ==
    LET k == SkipWhile(text, i, {text[x] : x \in 1..Len(text)} \ (LEFTS \cup CLOSERS))
    IN  IF k > Len(text) THEN Len(stack)
        ELSE IF text[k] \in LEFTS THEN ParenScan(text, k + 1, Append(stack, text[k]))
        ELSE IF stack # << >> /\ stack[Len(stack)] = PairOf(text[k])
             THEN ParenScan(text, k + 1, Sub(stack, 1, Len(stack) - 1))
             ELSE -1

\* the opening and the closing bracket characters of text[a..b]
Openers(text, a, b) == Cardinality({ x \in a..b : text[x] \in LEFTS })
Closers(text, a, b) == Cardinality({ x \in a..b : text[x] \in CLOSERS })

\* a variant that takes a closer without its opener for an open bracket
_paren_balance_anomaly_open(text) ==
    IF ParenScan(text, 1, << >>) = -1 THEN 1 ELSE ParenScan(text, 1, << >>)

\* a variant that counts: the opening bracket characters minus the closing ones
_paren_balance_by_count(text) ==
    Openers(text, 1, Len(text)) - Closers(text, 1, Len(text))

_paren_balance(text) == ParenScan(text, 1, << >>)

(***************************************************************************)
(* Line shapes                                                             *)
(***************************************************************************)


\* re.match(r"^\s*#{1,6}\s+\S", line)
IsHeadingStart(line) ==
    LET h  == SkipWhile(line, 1, WS)
        w  == SkipWhile(line, h, {"#"})
        c  == SkipWhile(line, w, WS)
    IN  /\ w - h >= 1 /\ w - h <= MAX_HASHES
        /\ c > w
        /\ c <= Len(line)

\* _RE_STRUCTURAL = ^\s*(?:[-*+]\s|\d+\.\s|#{1,6}\s|>|\||<3 backticks>|</?)
_RE_STRUCTURAL(line) ==
    LET p == SkipWhile(line, 1, WS)
        d == SkipWhile(line, p, DIGITS)
        w == SkipWhile(line, p, {"#"})
    IN  /\ p <= Len(line)
        /\ \/ line[p] \in {"-", "*", "+"} /\ p + 1 <= Len(line) /\ line[p + 1] \in WS
           \/ d > p /\ d + 1 <= Len(line) /\ line[d] = "." /\ line[d + 1] \in WS
           \/ w - p >= 1 /\ w - p <= MAX_HASHES /\ w <= Len(line) /\ line[w] \in WS
           \/ line[p] = ">"
           \/ line[p] = "|"
           \/ StartsWithAt(line, p, BACKTICKS3)
           \/ line[p] = "<"

\* stripped.startswith(_EXCLUDE_PREFIXES)
StartsWithAny(s, prefixes) == \E p \in prefixes : StartsWithAt(s, 1, p)

\* _HEADING_LINE = ^[ \t]{0,3}#{1,6}[ \t]+\S.*$
_HEADING_LINE(ln) ==
    LET h == SkipWhile(ln, 1, {" ", "\t"})
        w == SkipWhile(ln, h, {"#"})
        c == SkipWhile(ln, w, {" ", "\t"})
    IN  /\ h - 1 <= MAX_INDENT
        /\ w - h >= 1 /\ w - h <= MAX_HASHES
        /\ c > w
        /\ c <= Len(ln) /\ ln[c] \notin WS

(***************************************************************************)
(* Heading reconstruction scan of normalize_markdown                       *)
(***************************************************************************)

\* a variant that absorbs lines for the bracket balance only: no short-line rule
ScanBranch_balance_only(nxt, need_balance, seen_blank) ==
    IF Strip(nxt) = << >> THEN "blank"
    ELSE IF seen_blank /\ ~need_balance THEN "stop_blank"
    ELSE IF need_balance THEN "force"
    ELSE IF _RE_STRUCTURAL(nxt) THEN "stop_structural"
    ELSE IF StartsWithAny(Strip(nxt), _EXCLUDE_PREFIXES) THEN "stop_prefix"
    ELSE "stop_long"

\* what the inner while loop does with the line nxt: the chain of tests of its body
ScanBranch(nxt, need_balance, seen_blank) ==
    IF Strip(nxt) = << >> THEN "blank"
    ELSE IF seen_blank /\ ~need_balance THEN "stop_blank"
    ELSE IF need_balance THEN "force"
    ELSE IF _RE_STRUCTURAL(nxt) THEN "stop_structural"
    ELSE IF StartsWithAny(Strip(nxt), _EXCLUDE_PREFIXES) THEN "stop_prefix"
    ELSE IF Len(Strip(nxt)) <= SHORT_LINE_MAX
            \/ (Len(Strip(nxt)) = 1 /\ Strip(nxt)[1] \in _TAIL_TOKENS)
    THEN "short"
    ELSE "stop_long"

RECURSIVE MergeLoop(_, _, _, _, _)
\* the inner while loop: the lines absorbed into the heading, the first line
\* index that was not consumed, and the iterations the loop went through (the
\* line met, the buffer and the flags at that moment, the branch taken)
MergeLoop(lines, j, parts, need_balance, seen_blank) ==
    IF j > Len(lines) THEN [parts |-> parts, j |-> j, steps |-> << >>]
    ELSE LET nxt      == lines[j]
             absorbed == Append(parts, Strip(nxt))
             branch   == ScanBranch(nxt, need_balance, seen_blank)
             step     == [j |-> j, line |-> nxt, buffer |-> Join(parts, <<" ">>),
                          need_balance |-> need_balance, seen_blank |-> seen_blank,
                          branch |-> branch]
             rest     == CASE branch = "blank" ->
                                  MergeLoop(lines, j + 1, parts, need_balance, TRUE)
                           [] branch \in {"force", "short"} ->
                                  MergeLoop(lines, j + 1, absorbed,
                                            _paren_balance(Join(absorbed, <<" ">>)) > 0,
                                            seen_blank)
                           [] OTHER -> [parts |-> parts, j |-> j, steps |-> << >>]
         IN  [rest EXCEPT !.steps = << step >> \o @]

RECURSIVE HeadingScan(_, _)
\* a variant that goes on after the line that stopped the merge
HeadingScan_past_stop_line(lines, i) ==
    IF i > Len(lines) THEN << >>
    ELSE IF IsHeadingStart(lines[i])
         THEN LET first == Strip(lines[i])
                  m     == MergeLoop(lines, i + 1, << first >>,
                                     _paren_balance(first) > 0, FALSE)
              IN  << Join(m.parts, <<" ">>), << >> >> \o HeadingScan(lines, m.j + 1)
         ELSE << lines[i] >> \o HeadingScan(lines, i + 1)

\* the outer while loop: the list out built from lines[i..]
HeadingScan(lines, i) ==
    IF i > Len(lines) THEN << >>
    ELSE IF IsHeadingStart(lines[i])
         THEN LET first == Strip(lines[i])
                  m     == MergeLoop(lines, i + 1, << first >>,
                                     _paren_balance(first) > 0, FALSE)
              IN  << Join(m.parts, <<" ">>), << >> >> \o HeadingScan(lines, m.j)
         ELSE << lines[i] >> \o HeadingScan(lines, i + 1)

RECURSIVE HeadingTrace(_, _)
\* the outer while loop again: for every heading it meets, the index of the
\* heading line, the need_balance it starts with, and what the inner loop did
HeadingTrace(lines, i) ==
    IF i > Len(lines) THEN << >>
    ELSE IF IsHeadingStart(lines[i])
         THEN LET first == Strip(lines[i])
                  m     == MergeLoop(lines, i + 1, << first >>,
                                     _paren_balance(first) > 0, FALSE)
              IN  << [i |-> i, first |-> first, need_balance |-> _paren_balance(first) > 0,
                      merged |-> Join(m.parts, <<" ">>), j |-> m.j, steps |-> m.steps] >>
                  \o HeadingTrace(lines, m.j)
         ELSE HeadingTrace(lines, i + 1)

\* the chain of tests of the inner while loop of routers/chat.py: no test of a
\* blank line seen, none of the field-label prefixes
LegacyBranch(nxt, need_balance) ==
    IF Strip(nxt) = << >> THEN "blank"
    ELSE IF need_balance THEN "force"
    ELSE IF _RE_STRUCTURAL(nxt) THEN "stop_structural"
    ELSE IF Len(Strip(nxt)) <= SHORT_LINE_MAX
            \/ (Len(Strip(nxt)) = 1 /\ Strip(nxt)[1] \in _TAIL_TOKENS)
    THEN "short"
    ELSE "stop_long"

RECURSIVE LegacyMergeLoop(_, _, _, _, _)
\* the inner while loop of routers/chat.py; seen_blank is not a variable of that
\* code: the iterations keep whether a blank line was skipped before them
LegacyMergeLoop(lines, j, parts, need_balance, seen_blank) ==
    IF j > Len(lines) THEN [parts |-> parts, j |-> j, steps |-> << >>]
    ELSE LET nxt      == lines[j]
             absorbed == Append(parts, Strip(nxt))
             branch   == LegacyBranch(nxt, need_balance)
             step     == [j |-> j, line |-> nxt, buffer |-> Join(parts, <<" ">>),
                          need_balance |-> need_balance, seen_blank |-> seen_blank,
                          branch |-> branch]
             rest     == CASE branch = "blank" ->
                                  LegacyMergeLoop(lines, j + 1, parts, need_balance, TRUE)
                           [] branch \in {"force", "short"} ->
                                  LegacyMergeLoop(lines, j + 1, absorbed,
                                                  _paren_balance(Join(absorbed, <<" ">>)) > 0,
                                                  seen_blank)
                           [] OTHER -> [parts |-> parts, j |-> j, steps |-> << >>]
         IN  [rest EXCEPT !.steps = << step >> \o @]

RECURSIVE LegacyHeadingTrace(_, _)
\* the outer while loop of routers/chat.py, heading by heading
LegacyHeadingTrace(lines, i) ==
    IF i > Len(lines) THEN << >>
    ELSE IF IsHeadingStart(lines[i])
         THEN LET first == Strip(lines[i])
                  m     == LegacyMergeLoop(lines, i + 1, << first >>,
                                           _paren_balance(first) > 0, FALSE)
              IN  << [i |-> i, first |-> first, need_balance |-> _paren_balance(first) > 0,
                      merged |-> Join(m.parts, <<" ">>), j |-> m.j, steps |-> m.steps] >>
                  \o LegacyHeadingTrace(lines, m.j)
         ELSE LegacyHeadingTrace(lines, i + 1)

(***************************************************************************)
(* Break-marker patterns                                                   *)
(***************************************************************************)

\* <br\s*/?> at index i: the index of its ">", 0 if no match
BrTagEnd(s, i, ignorecase) ==
    IF ~( /\ i + 2 <= Len(s)
          /\ s[i] = "<"
          /\ s[i + 1] \in (IF ignorecase THEN {"b", "B"} ELSE {"b"})
          /\ s[i + 2] \in (IF ignorecase THEN {"r", "R"} ELSE {"r"}) )
    THEN 0
    ELSE LET w == SkipWhile(s, i + 3, WS)
             g == IF w <= Len(s) /\ s[w] = "/" THEN w + 1 ELSE w
         IN  IF g <= Len(s) /\ s[g] = ">" THEN g ELSE 0

RECURSIVE RemoveBrFrom(_, _)
RemoveBrFrom(s, i) ==
    LET k == IF i > Len(s) THEN i
             ELSE FirstIndex(i, Len(s), LAMBDA x : BrTagEnd(s, x, FALSE) # 0)
    IN  IF k > Len(s) THEN Sub(s, i, Len(s))
        ELSE Sub(s, i, k - 1) \o RemoveBrFrom(s, BrTagEnd(s, k, FALSE) + 1)

\* re.sub(r"<br\s*/?>", "", s)
RemoveBrTags(s) == RemoveBrFrom(s, 1)

\* the length of \r?\n at index i (0 if it does not match)
NewlineUnit(s, i) ==
    IF i + 1 <= Len(s) /\ s[i] = "\r" /\ s[i + 1] = "\n" THEN 2
    ELSE IF i <= Len(s) /\ s[i] = "\n" THEN 1
    ELSE 0

\* (?:\r?\n)?<br\s*/?>\s*(?:\r?\n){2} at index i: the last index of the match, 0 if none
BrBlockEnd(s, i, ignorecase) ==
    LET e    == BrTagEnd(s, i + NewlineUnit(s, i), ignorecase)
        r    == SkipWhile(s, e + 1, WS)
        ends == { t \in (e + 2)..(r - 1) :
                    /\ s[t] = "\n"
                    /\ \/ s[t - 1] = "\n"
                       \/ t - 2 >= e + 1 /\ s[t - 1] = "\r" /\ s[t - 2] = "\n" }
    IN  IF e = 0 \/ ends = {} THEN 0
        ELSE CHOOSE t \in ends : \A u \in ends : u <= t

RECURSIVE SubBrBlockFrom(_, _, _, _)
SubBrBlockFrom(s, i, ignorecase, rep) ==
    LET k == IF i > Len(s) THEN i
             ELSE FirstIndex(i, Len(s), LAMBDA x : BrBlockEnd(s, x, ignorecase) # 0)
    IN  IF k > Len(s) THEN Sub(s, i, Len(s))
        ELSE Sub(s, i, k - 1) \o rep
             \o SubBrBlockFrom(s, BrBlockEnd(s, k, ignorecase) + 1, ignorecase, rep)

\* re.sub of the break-marker block pattern by rep
SubBrBlock(s, ignorecase, rep) == SubBrBlockFrom(s, 1, ignorecase, rep)

(***************************************************************************)
(* Heading / field-label split and heading-block isolation                 *)
(***************************************************************************)

KeywordAt(s, q) ==
    /\ \E kw \in HEADING_KEYWORDS : StartsWithAt(s, q, kw)
    /\ q + 2 <= Len(s)
    /\ s[q + 2] \in {"uff1a", ":"}

\* _HEADING_KEYWORD_SPLIT at the line start p: the index where group 2 starts, 0 if no match
KeywordSplitAt(s, p) ==
    LET h    == SkipWhile(s, p, {"#"})
        w    == SkipWhile(s, h, WS)
        eol  == FindChar(s, w, "\n") - 1
        late == { q \in (w + 1)..eol : KeywordAt(s, q) }
    IN  IF ~(h - p >= 1 /\ h - p <= MAX_HASHES /\ w > h) THEN 0
        ELSE IF late # {} THEN CHOOSE q \in late : \A u \in late : q <= u
        ELSE IF w - h >= 2 /\ s[w - 1] # "\n" /\ KeywordAt(s, w) THEN w
        ELSE 0

RECURSIVE KeywordSplitFrom(_, _)
KeywordSplitFrom(s, p) ==
    IF p > Len(s) THEN << >>
    ELSE LET q    == KeywordSplitAt(s, p)
             from == IF q = 0 THEN p ELSE q
             eol  == FindChar(s, from, "\n") - 1
             rest == IF eol + 1 <= Len(s)
                     THEN <<"\n">> \o KeywordSplitFrom(s, eol + 2) ELSE << >>
         IN  IF q = 0 THEN Sub(s, p, eol) \o rest
             ELSE Sub(s, p, q - 1) \o <<"\n", "\n">> \o Sub(s, q, eol) \o rest

\* _HEADING_KEYWORD_SPLIT.sub(r'\1\n\n\2\3', s)
\* a variant that splits no heading
_split_heading_keyword_off(s) == s

_split_heading_keyword(s) == KeywordSplitFrom(s, 1)

IsBlank(ln) == Strip(ln) = << >>

\* the next line is a heading tail of 1 to 5 CJK / full-width punctuation characters
IsHeadingTail(nxt) ==
    LET t == Strip(nxt)
    IN  /\ Len(t) <= TAIL_MERGE_MAX
        /\ t # << >>
        /\ ~_RE_STRUCTURAL(nxt)
        /\ \A k \in 1..Len(t) : t[k] \in CJK \cup HEADING_TAIL_PUNCT

RECURSIVE EnsureFrom(_, _, _)
EnsureFrom(lines, i, out) ==
    IF i > Len(lines) THEN out
    ELSE LET ln   == lines[i]
             out1 == IF out # << >> /\ ~IsBlank(out[Len(out)])
                     THEN Append(out, << >>) ELSE out
         IN  IF _HEADING_LINE(ln)
             THEN IF i + 1 <= Len(lines) /\ IsHeadingTail(lines[i + 1])
                  THEN LET out2 == Append(out1, RStrip(ln) \o Strip(lines[i + 1]))
                       IN  EnsureFrom(lines, i + 2,
                                      IF i + 2 <= Len(lines) /\ ~IsBlank(lines[i + 2])
                                      THEN Append(out2, << >>) ELSE out2)
                  ELSE LET out2 == Append(out1, RStrip(ln))
                       IN  EnsureFrom(lines, i + 1,
                                      IF i + 1 <= Len(lines) /\ ~IsBlank(lines[i + 1])
                                      THEN Append(out2, << >>) ELSE out2)
             ELSE EnsureFrom(lines, i + 1, Append(out, ln))

\* a variant that only collapses the blank lines and isolates no heading
_ensure_heading_blocks_collapse_only(s) == CollapseBlankLines(s)

_ensure_heading_blocks(s) ==
    CollapseBlankLines(Join(EnsureFrom(SplitLines(s), 1, << >>), <<"\n">>))

(***************************************************************************)
(* The repair engine                                                       *)
(***************************************************************************)

\* the heading scan, the blank-line collapse and the two break-marker passes, on a
\* text whose code spans are placeholders
RepairProtected(s) ==
    SubBrBlock(RemoveBrTags(CollapseBlankLines(
                   Join(HeadingScan(SplitLines(s), 1), <<"\n">>))),
               FALSE, <<" ">>)

\* inline code spans restored after the repair of the protected text
RepairInline(inline) ==
    _restore_placeholders(RepairProtected(inline.text), inline.store, "I")

\* inline code spans protected inside the text whose fenced blocks are protected, and
\* the fenced blocks restored last
RepairFenced(fenced) ==
    _restore_placeholders(
        RepairInline(_extract_placeholders(fenced.text, "_RE_INLINE", "I")),
        fenced.store, "F")

normalize_markdown(md) ==
    IF md = << >> THEN md
    ELSE Strip(_ensure_heading_blocks(_split_heading_keyword(
             RepairFenced(_extract_placeholders(
                 RemoveChars(Replace(Replace(md, <<"\r", "\n">>, <<"\n">>),
                                     <<"\r">>, <<"\n">>),
                             ZERO_WIDTH),
                 "_RE_FENCED", "F")))))

(***************************************************************************)
(* Cleanup pass of app/chat/utils.py                                       *)
(***************************************************************************)

_BR_REPLACEMENT == <<"\n", "-", " ">>

\* _BR_BLOCK.sub(_BR_REPLACEMENT, s), case-insensitive
scrub_br_block(s) == SubBrBlock(s, TRUE, _BR_REPLACEMENT)

RECURSIVE NewlineRun(_, _, _)
\* (?:\r?\n)* from index i: the number of units and the index after them
NewlineRun(s, i, n) ==
    LET u == NewlineUnit(s, i)
    IN  IF u = 0 THEN [n |-> n, e |-> i] ELSE NewlineRun(s, i + u, n + 1)

RECURSIVE CollapseDoubleFrom(_, _)
CollapseDoubleFrom(s, i) ==
    LET k == IF i > Len(s) THEN i
             ELSE FirstIndex(i, Len(s), LAMBDA x : NewlineUnit(s, x) # 0
                                                    /\ NewlineRun(s, x, 0).n >= 2)
    IN  IF k > Len(s) THEN Sub(s, i, Len(s))
        ELSE Sub(s, i, k - 1) \o <<"\n">> \o CollapseDoubleFrom(s, NewlineRun(s, k, 0).e)

\* _MULTI_NL.sub("\n", s) with _MULTI_NL = (?:\r?\n){2,}
collapse_double_newlines(s) == CollapseDoubleFrom(s, 1)

\* s.replace("\n- -", "\n-")
third_sub(s) == Replace(s, <<"\n", "-", " ", "-">>, <<"\n", "-">>)

(***************************************************************************)
(* IncrementalNormalizer (app/chat/utils.py)                               *)
(***************************************************************************)

\* __init__
IncrementalNormalizer(normalize_interval) ==
    [ _normalize_interval |-> normalize_interval,
      _raw_chunks         |-> << >>,
      _token_count        |-> 0,
      _last_normalized    |-> << >> ]

\* the value of append / finalize: None, or a text
None == [some |-> FALSE, text |-> << >>]
Some(t) == [some |-> TRUE, text |-> t]

\* Python truthiness of an Optional[str]
Truthy(r) == r.some /\ r.text # << >>

\* the three cleanup passes of _normalize, in its order
Cleanup(normalized) == third_sub(collapse_double_newlines(scrub_br_block(normalized)))

\* the end of _normalize: the text is stored as the snapshot and returned
StoreAndReturn(self, normalized) ==
    [ self |-> [self EXCEPT !._last_normalized = normalized], ret |-> Some(normalized) ]

\* a variant that normalizes only the chunks received after the latest checkpoint
\* and appends the result to the snapshot
_normalize_dirty_region(self) ==
    StoreAndReturn(self,
        self._last_normalized
        \o Cleanup(normalize_markdown(Concat(SubSeq(
               self._raw_chunks,
               self._token_count - (self._token_count % self._normalize_interval) + 1,
               self._token_count)))))

\* a variant that returns the text and does not store it
_normalize_no_store(self) ==
    [ self |-> self,
      ret  |-> Some(Cleanup(normalize_markdown(Concat(self._raw_chunks)))) ]

\* _normalize: the normalizer after the call, and the text returned
_normalize(self) ==
    StoreAndReturn(self, Cleanup(normalize_markdown(Concat(self._raw_chunks))))

\* the first two statements of append: the chunk is pushed and the counter incremented
Push(self, delta) ==
    [self EXCEPT !._raw_chunks = Append(@, delta), !._token_count = @ + 1]

\* a variant that tests the counter before it is incremented
append_tests_old_counter(self, delta) ==
    IF self._token_count % self._normalize_interval = 0
    THEN _normalize(Push(self, delta))
    ELSE [self |-> Push(self, delta), ret |-> None]

\* append: the normalizer after the call, and the value returned
append(self, delta) ==
    IF (self._token_count + 1) % self._normalize_interval = 0
    THEN _normalize(Push(self, delta))
    ELSE [self |-> Push(self, delta), ret |-> None]

\* a variant that returns the snapshot of the latest checkpoint
finalize_cached(self) == [self |-> self, ret |-> Some(self._last_normalized)]

\* a variant that hands the text over and empties the buffer
finalize_draining(self) ==
    [ self |-> [_normalize(self).self EXCEPT !._raw_chunks = << >>, !._token_count = 0],
      ret  |-> _normalize(self).ret ]

\* finalize
finalize(self) == _normalize(self)

(***************************************************************************)
(* Bounds and inputs                                                       *)
(***************************************************************************)

\* normalize_interval of the streaming generators
NORMALIZE_INTERVAL == 50

\* the upstream's first FreeFragments fragments are any of Pool, the later ones are Filler
FreeFragments == 2
\* the upstream yields at most MaxFragments fragments
MaxFragments == 52
\* a stand-alone normalizer has an interval in 1..MaxInterval and takes at most MaxAppends appends
MaxInterval == 3
MaxAppends == 4

Pool == { << >>, <<"a">>, <<"#", " ">>, <<"\n", "\n">> }
Filler == <<"a">>

\* the abbreviated text of opening_user_msg, and the message argument of send_chat
opening_user_msg == <<"o">>
message == <<"m">>

\* the history of the conversation that send_chat continues
PriorHistory ==
    << [role |-> "user", content |-> opening_user_msg],
       [role |-> "assistant", content |-> <<"r">>] >>

\* FILTER_ENABLED of app/chat/content_filter.py
FILTER_ENABLED == TRUE

\* the rows of the sensitive_words table
sensitive_words ==
    << [word |-> <<"a">>, replacement |-> <<"b">>, is_regex |-> FALSE,
        priority |-> 1, status |-> 1] >>

(***************************************************************************)
(* State                                                                   *)
(***************************************************************************)

VARIABLES
    kind,           \* which entry point made the generator: "start_chat" or "send_chat"
    db_on,          \* db_conv_id and user_id are set (a logged-in user)
    pc,             \* where the generator gen() stands
    events,         \* the events yielded to the consumer so far
    normalizer,     \* the IncrementalNormalizer of the stream
    final,          \* the local variable final of gen()
    fragments,      \* every delta the upstream fragment source has produced so far
    history,        \* _CONV[cid]["history"]
    db_messages,    \* the Message rows saved for the conversation
    cancelled,      \* the consumer closed the generator
    last_ret,       \* the operation last called on a stand-alone normalizer and its value
    checkpoint,     \* of a stand-alone normalizer: how many appends returned a text, and
                    \* the text that was in the buffer at the latest checkpoint
    doc,            \* a text handed to normalize_markdown
    repaired,       \* the results of applying normalize_markdown to doc once, twice
    scanned,        \* what the heading scan of normalize_markdown did with doc, and
                    \* the list out it built
    legacy,         \* what the heading scan of the copy in routers/chat.py did with doc
    rule_store,     \* the rows of the table sensitive_words
    _cache,         \* content_filter._cache
    _cache_time,    \* content_filter._cache_time
    clock,          \* datetime.now(), in seconds
    filter_enabled, \* content_filter.FILTER_ENABLED of the running process
    handlers,       \* the request threads of the one-shot reply paths
    admin,          \* the request thread of the sensitive-words admin API
    audit,          \* what the rule store and the cache went through (for the properties)
    reset_codes,    \* the committed rows of password_reset_codes of one email, oldest first
    password,       \* the committed password hash of the user of that email
    reset_req,      \* the request to /auth/password-reset/reset in flight, with its session
    reset_log,      \* the requests answered so far
    streams,        \* the send_chat streams on one conversation, each with its position
    regen,          \* the regenerate call on a conversation
    inv_code,       \* the committed row of one invitation code
    usages,         \* the committed rows of invitation_code_usages for that code
    register        \* the web_register requests, each with its session

chat_vars == << kind, db_on, pc, events, normalizer, final, fragments, history,
                db_messages, cancelled, last_ret, checkpoint >>

repair_vars == << doc, repaired, scanned, legacy >>

filter_vars == << rule_store, _cache, _cache_time, clock, filter_enabled, handlers,
                  admin, audit >>

reset_vars == << reset_codes, password, reset_req, reset_log >>

conv_vars == << streams, regen >>

invite_vars == << inv_code, usages, register >>

vars == << chat_vars, repair_vars, filter_vars, reset_vars, conv_vars, invite_vars >>

\* _cache = None, _cache_time = None (lines 18-19 of content_filter.py); a cached list
\* remembers which state of the rule store it was loaded from (loaded)
NoSnapshot == [some |-> FALSE, rules |-> << >>, loaded |-> 0]
NoTime == [some |-> FALSE, t |-> 0]

\* no text is being repaired
RepairIdle == doc = << >> /\ repaired = << >> /\ scanned = << >> /\ legacy = << >>

\* no request to the password-reset endpoint
NoRequest == [pc |-> "idle", code |-> "", tx |-> [codes |-> << >>, password |-> ""],
              ret |-> [success |-> FALSE, message |-> ""]]

\* no concurrent streams on one conversation and no regenerate call
NoRegenerate == [pc |-> "idle", before |-> << >>, ret |-> "", calls |-> 0]

ConvIdle ==
    /\ streams = << >>
    /\ regen = NoRegenerate

\* no invitation code and no registration request
InviteIdle ==
    /\ inv_code = [max_uses |-> 0, used_count |-> 0]
    /\ usages = {}
    /\ register = << >>

ResetIdle ==
    /\ reset_codes = << >>
    /\ password = ""
    /\ reset_req = NoRequest
    /\ reset_log = << >>

\* the process serves no one-shot reply and no admin request; the rule table is empty
FilterIdle ==
    /\ rule_store = {}
    /\ _cache = NoSnapshot
    /\ _cache_time = NoTime
    /\ clock = 0
    /\ filter_enabled = FILTER_ENABLED
    /\ handlers = << >>
    /\ admin = [pc |-> "absent", v |-> 1]
    /\ audit = [stores |-> << {} >>, cleared |-> 1, ticks |-> 0]

\* no streaming generator and no stand-alone normalizer
ChatIdle ==
    /\ kind = "start_chat"
    /\ db_on = FALSE
    /\ pc = "none"
    /\ events = << >>
    /\ normalizer = IncrementalNormalizer(NORMALIZE_INTERVAL)
    /\ final = << >>
    /\ fragments = << >>
    /\ history = << >>
    /\ db_messages = << >>
    /\ cancelled = FALSE
    /\ last_ret = [op |-> "init", ret |-> None]
    /\ checkpoint = [seen |-> FALSE, returned |-> 0, buffer |-> << >>]

stream_vars == << kind, db_on, pc, events, final, fragments, history, db_messages, cancelled >>

Meta == [type |-> "meta", content |-> <<"c", "i", "d">>, replace |-> FALSE]
Text(content) == [type |-> "text", content |-> content, replace |-> TRUE]
Done == [type |-> "done", content |-> << >>, replace |-> FALSE]
Error(msg) == [type |-> "error", content |-> msg, replace |-> FALSE]

YieldPoints == {"yield_meta", "yield_text", "yield_final", "yield_done", "yield_error"}

user_msg == IF kind = "start_chat" THEN opening_user_msg ELSE message

(***************************************************************************)
(* The streaming generator gen() of start_chat and send_chat               *)
(***************************************************************************)

NoCheckpoint == [seen |-> FALSE, returned |-> 0, buffer |-> << >>]

Init ==
    /\ kind \in {"start_chat", "send_chat"}
    /\ db_on \in BOOLEAN
    /\ pc = "created"
    /\ events = << >>
    /\ normalizer = IncrementalNormalizer(NORMALIZE_INTERVAL)
    /\ final = << >>
    /\ fragments = << >>
    /\ history = IF kind = "start_chat" THEN << >> ELSE PriorHistory
    /\ db_messages = << >>
    /\ cancelled = FALSE
    /\ last_ret = [op |-> "init", ret |-> None]
    /\ checkpoint = NoCheckpoint
    /\ RepairIdle
    /\ FilterIdle
    /\ ResetIdle
    /\ ConvIdle
    /\ InviteIdle

\* the first next(): the generator runs to its first yield
Start ==
    /\ pc = "created"
    /\ events' = Append(events, Meta)
    /\ pc' = "yield_meta"
    /\ UNCHANGED << kind, db_on, normalizer, final, fragments, history, db_messages,
                    cancelled, last_ret, checkpoint >>
    /\ UNCHANGED << repair_vars, filter_vars, reset_vars, conv_vars, invite_vars >>

\* the response is dropped before the generator was started: its body never runs
Abandon ==
    /\ pc = "created"
    /\ pc' = "abandoned"
    /\ cancelled' = TRUE
    /\ UNCHANGED << kind, db_on, events, normalizer, final, fragments, history,
                    db_messages, last_ret, checkpoint >>
    /\ UNCHANGED << repair_vars, filter_vars, reset_vars, conv_vars, invite_vars >>

\* next() after the meta event or after a checkpoint text: back to the for loop
ResumeLoop ==
    /\ pc \in {"yield_meta", "yield_text"}
    /\ pc' = "pull"
    /\ UNCHANGED << kind, db_on, events, normalizer, final, fragments, history,
                    db_messages, cancelled, last_ret, checkpoint >>
    /\ UNCHANGED << repair_vars, filter_vars, reset_vars, conv_vars, invite_vars >>

\* the upstream produces the delta d
UpstreamDelta(d) ==
    /\ pc = "pull"
    /\ Len(fragments) < MaxFragments
    /\ d = Filler \/ Len(fragments) < FreeFragments
    /\ fragments' = Append(fragments, d)
    /\ IF d = << >>
       THEN UNCHANGED << normalizer, events, pc >>
       ELSE \E r \in {append(normalizer, d)} :
                /\ normalizer' = r.self
                /\ IF Truthy(r.ret)
                   THEN /\ events' = Append(events, Text(r.ret.text))
                        /\ pc' = "yield_text"
                   ELSE UNCHANGED << events, pc >>
    /\ UNCHANGED << kind, db_on, final, history, db_messages, cancelled, last_ret, checkpoint >>
    /\ UNCHANGED << repair_vars, filter_vars, reset_vars, conv_vars, invite_vars >>

\* the upstream signals end-of-sequence: final normalization and the final text event
UpstreamEnd ==
    /\ pc = "pull"
    /\ \E r \in {finalize(normalizer)} :
           /\ normalizer' = r.self
           /\ final' = r.ret.text
           /\ events' = Append(events, Text(r.ret.text))
    /\ pc' = "yield_final"
    /\ UNCHANGED << kind, db_on, fragments, history, db_messages, cancelled, last_ret, checkpoint >>
    /\ UNCHANGED << repair_vars, filter_vars, reset_vars, conv_vars, invite_vars >>

\* a variant whose except clause yields the error and goes on with the loop
UpstreamFail_Continues ==
    /\ pc = "pull"
    /\ events' = Append(events, Error(<<"u", "p", "s", "t", "r", "e", "a", "m">>))
    /\ pc' = "yield_text"
    /\ UNCHANGED << kind, db_on, normalizer, final, fragments, history, db_messages,
                    cancelled, last_ret, checkpoint >>
    /\ UNCHANGED << repair_vars, filter_vars, reset_vars, conv_vars, invite_vars >>

\* the upstream raises: the except clause yields the error event
UpstreamFail ==
    /\ pc = "pull"
    /\ events' = Append(events, Error(<<"u", "p", "s", "t", "r", "e", "a", "m">>))
    /\ pc' = "yield_error"
    /\ UNCHANGED << kind, db_on, normalizer, final, fragments, history, db_messages,
                    cancelled, last_ret, checkpoint >>
    /\ UNCHANGED << repair_vars, filter_vars, reset_vars, conv_vars, invite_vars >>

\* the upstream ended and normalizer.finalize() raises: the same except clause
FinalizeFail ==
    /\ pc = "pull"
    /\ events' = Append(events, Error(<<"f", "i", "n", "a", "l", "i", "z", "e">>))
    /\ pc' = "yield_error"
    /\ UNCHANGED << kind, db_on, normalizer, final, fragments, history, db_messages,
                    cancelled, last_ret, checkpoint >>
    /\ UNCHANGED << repair_vars, filter_vars, reset_vars, conv_vars, invite_vars >>

\* a variant that returns after the final text event
ResumeFinal_Returns ==
    /\ pc = "yield_final"
    /\ pc' = "finally_user"
    /\ UNCHANGED << kind, db_on, events, normalizer, final, fragments, history,
                    db_messages, cancelled, last_ret, checkpoint >>
    /\ UNCHANGED << repair_vars, filter_vars, reset_vars, conv_vars, invite_vars >>

\* next() after the final text event: the done event
ResumeFinal ==
    /\ pc = "yield_final"
    /\ events' = Append(events, Done)
    /\ pc' = "yield_done"
    /\ UNCHANGED << kind, db_on, normalizer, final, fragments, history, db_messages,
                    cancelled, last_ret, checkpoint >>
    /\ UNCHANGED << repair_vars, filter_vars, reset_vars, conv_vars, invite_vars >>

\* next() after the done or the error event: the generator leaves the try statement
ResumeTerminal ==
    /\ pc \in {"yield_done", "yield_error"}
    /\ pc' = "finally_user"
    /\ UNCHANGED << kind, db_on, events, normalizer, final, fragments, history,
                    db_messages, cancelled, last_ret, checkpoint >>
    /\ UNCHANGED << repair_vars, filter_vars, reset_vars, conv_vars, invite_vars >>

\* a variant that persists after the loop and not in a finally clause
Close_SkipsCleanup ==
    /\ pc \in YieldPoints
    /\ cancelled' = TRUE
    /\ pc' = "closed"
    /\ UNCHANGED << kind, db_on, events, normalizer, final, fragments, history,
                    db_messages, last_ret, checkpoint >>
    /\ UNCHANGED << repair_vars, filter_vars, reset_vars, conv_vars, invite_vars >>

\* the consumer disconnects: GeneratorExit at the yield where the generator is suspended
Close ==
    /\ pc \in YieldPoints
    /\ cancelled' = TRUE
    /\ pc' = "finally_user"
    /\ UNCHANGED << kind, db_on, events, normalizer, final, fragments, history,
                    db_messages, last_ret, checkpoint >>
    /\ UNCHANGED << repair_vars, filter_vars, reset_vars, conv_vars, invite_vars >>

\* finally: append_history(cid, "user", ...)
FinallyUser ==
    /\ pc = "finally_user"
    /\ history' = Append(history, [role |-> "user", content |-> user_msg])
    /\ pc' = "finally_assistant"
    /\ UNCHANGED << kind, db_on, events, normalizer, final, fragments, db_messages,
                    cancelled, last_ret, checkpoint >>
    /\ UNCHANGED << repair_vars, filter_vars, reset_vars, conv_vars, invite_vars >>

\* finally: append_history(cid, "assistant", final)
FinallyAssistant ==
    /\ pc = "finally_assistant"
    /\ history' = Append(history, [role |-> "assistant", content |-> final])
    /\ pc' = IF db_on THEN "finally_db" ELSE "closed"
    /\ UNCHANGED << kind, db_on, events, normalizer, final, fragments, db_messages,
                    cancelled, last_ret, checkpoint >>
    /\ UNCHANGED << repair_vars, filter_vars, reset_vars, conv_vars, invite_vars >>

\* finally: the two _save_db_message calls in a new session; saved is how many of
\* them commit before one raises (the exception is logged)
FinallyDb(saved) ==
    /\ pc = "finally_db"
    /\ db_messages' = db_messages \o
           SubSeq(<< [role |-> "user", content |-> user_msg],
                     [role |-> "assistant", content |-> final] >>, 1, saved)
    /\ pc' = "closed"
    /\ UNCHANGED << kind, db_on, events, normalizer, final, fragments, history,
                    cancelled, last_ret, checkpoint >>
    /\ UNCHANGED << repair_vars, filter_vars, reset_vars, conv_vars, invite_vars >>

Next ==
    \/ Start
    \/ Abandon
    \/ ResumeLoop
    \/ \E d \in Pool : UpstreamDelta(d)
    \/ UpstreamEnd
    \/ UpstreamFail
    \/ FinalizeFail
    \/ ResumeFinal
    \/ ResumeTerminal
    \/ Close
    \/ FinallyUser
    \/ FinallyAssistant
    \/ \E saved \in 0..2 : FinallyDb(saved)

Spec == Init /\ [][Next]_vars

\* The response iterates the generator until it is exhausted (sse_response hands
\* gen() to StreamingResponse), and the statements of the finally block run one
\* after the other.  The upstream is not silent for ever: a read that gets nothing
\* raises (requests.post(..., timeout=300)), and the reply is capped (max_tokens),
\* so the loop ends by end-of-sequence or by a failure.  Close and Abandon are the
\* consumer's and have no fairness.
Fairness ==
    /\ WF_vars(Start)
    /\ WF_vars(ResumeLoop)
    /\ WF_vars(UpstreamFail)
    /\ WF_vars(ResumeFinal)
    /\ WF_vars(ResumeTerminal)
    /\ WF_vars(FinallyUser)
    /\ WF_vars(FinallyAssistant)
    /\ WF_vars(\E saved \in 0..2 : FinallyDb(saved))

SpecLive == Init /\ [][Next]_vars /\ Fairness

(***************************************************************************)
(* Several send_chat streams on one conversation: the finally block of     *)
(* gen() and append_history of app/chat/store.py                           *)
(***************************************************************************)

\* at most MaxStreams streams are open on the conversation
MaxStreams == 3

StreamId == <<"1", "2", "3", "4">>
\* the message argument of stream n and the text its upstream produces
MessageOf(n) == <<"m", StreamId[n]>>
ReplyOf(n) == <<"r", StreamId[n]>>

NoStream == [pc |-> "absent", final |-> << >>]

PairInit ==
    /\ streams = [n \in 1..MaxStreams |-> NoStream]
    /\ history = PriorHistory
    /\ kind = "send_chat"
    /\ db_on = FALSE
    /\ pc = "none"
    /\ events = << >>
    /\ normalizer = IncrementalNormalizer(NORMALIZE_INTERVAL)
    /\ final = << >>
    /\ fragments = << >>
    /\ db_messages = << >>
    /\ cancelled = FALSE
    /\ last_ret = [op |-> "init", ret |-> None]
    /\ checkpoint = NoCheckpoint
    /\ regen = NoRegenerate
    /\ RepairIdle
    /\ FilterIdle
    /\ ResetIdle
    /\ InviteIdle

pair_frame == << kind, db_on, pc, events, normalizer, final, fragments, db_messages,
                 cancelled, last_ret, checkpoint, regen, repair_vars, filter_vars,
                 reset_vars, invite_vars >>

\* send_chat(conversation_id, message): get_conv finds the conversation and the
\* response starts iterating gen()
PairSend(n) ==
    /\ streams[n].pc = "absent"
    /\ \A i \in 1..(n - 1) : streams[i].pc # "absent"
    /\ streams' = [streams EXCEPT ![n].pc = "streaming"]
    /\ UNCHANGED << history, pair_frame >>

\* gen() leaves its try statement: after Done with the final text, or after Error
\* or a disconnect with final still ''
PairFinish(n, text) ==
    /\ streams[n].pc = "streaming"
    /\ streams' = [streams EXCEPT ![n] = [pc |-> "finally_user", final |-> text]]
    /\ UNCHANGED << history, pair_frame >>

\* finally: append_history(conversation_id, "user", message), under _LOCK
PairUser(n) ==
    /\ streams[n].pc = "finally_user"
    /\ history' = Append(history, [role |-> "user", content |-> MessageOf(n)])
    /\ streams' = [streams EXCEPT ![n].pc = "finally_assistant"]
    /\ UNCHANGED pair_frame

\* finally: append_history(conversation_id, "assistant", final), under _LOCK
PairAssistant(n) ==
    /\ streams[n].pc = "finally_assistant"
    /\ history' = Append(history, [role |-> "assistant", content |-> streams[n].final])
    /\ streams' = [streams EXCEPT ![n].pc = "closed"]
    /\ UNCHANGED pair_frame

PairNext ==
    \/ \E n \in 1..MaxStreams : PairSend(n)
    \/ \E n \in 1..MaxStreams : \E text \in { << >>, ReplyOf(n) } : PairFinish(n, text)
    \/ \E n \in 1..MaxStreams : PairUser(n)
    \/ \E n \in 1..MaxStreams : PairAssistant(n)

SpecPair == PairInit /\ [][PairNext]_vars

(***************************************************************************)
(* regenerate of app/chat/service.py on the conversation store              *)
(***************************************************************************)

\* at most MaxRegens calls of regenerate on the conversation
MaxRegens == 3

\* what call_deepseek returns
RegenReplies == { <<"x">>, <<"#", " ", "h", "\n", "y">>, <<"y", "\n", "#", " ", "h">> }

\* the history of the conversation when the first call arrives
RegenHistories ==
    { << >>,
      PriorHistory,
      Append(PriorHistory, [role |-> "user", content |-> message]),
      PriorHistory \o << [role |-> "user", content |-> message],
                         [role |-> "assistant", content |-> <<"s">>] >> }

RegenInit ==
    /\ history \in RegenHistories
    /\ regen = NoRegenerate
    /\ streams = << >>
    /\ kind = "send_chat"
    /\ db_on = FALSE
    /\ pc = "none"
    /\ events = << >>
    /\ normalizer = IncrementalNormalizer(NORMALIZE_INTERVAL)
    /\ final = << >>
    /\ fragments = << >>
    /\ db_messages = << >>
    /\ cancelled = FALSE
    /\ last_ret = [op |-> "init", ret |-> None]
    /\ checkpoint = NoCheckpoint
    /\ RepairIdle
    /\ FilterIdle
    /\ ResetIdle
    /\ InviteIdle

regen_frame == << kind, db_on, pc, events, normalizer, final, fragments, db_messages,
                  cancelled, last_ret, checkpoint, streams, repair_vars, filter_vars,
                  reset_vars, invite_vars >>

\* regenerate up to call_deepseek: the checks that raise ValueError, then
\* history.pop() on the list that get_conv handed out, which is the stored one
RegenerateCall ==
    /\ regen.pc = "idle"
    /\ regen.calls < MaxRegens
    /\ IF history = << >> \/ history[Len(history)].role # "assistant"
       THEN /\ regen' = [regen EXCEPT !.pc = "returned", !.before = history,
                                      !.ret = "ValueError"]
            /\ UNCHANGED history
       ELSE /\ regen' = [regen EXCEPT !.pc = "upstream", !.before = history, !.ret = ""]
            /\ history' = SubSeq(history, 1, Len(history) - 1)
    /\ UNCHANGED regen_frame

\* call_deepseek returns raw; the reply is repaired, filtered (the rule table is
\* empty) and repaired again, or repaired once when the filter pass raises; then
\* append_history(conversation_id, "assistant", reply)
RegenerateReply(raw, filtered) ==
    /\ regen.pc = "upstream"
    /\ history' = Append(history,
                         [role |-> "assistant",
                          content |-> IF filtered
                                      THEN normalize_markdown(normalize_markdown(raw))
                                      ELSE normalize_markdown(raw)])
    /\ regen' = [regen EXCEPT !.pc = "returned", !.ret = "ok"]
    /\ UNCHANGED regen_frame

\* call_deepseek raises: the exception leaves regenerate
RegenerateFail ==
    /\ regen.pc = "upstream"
    /\ regen' = [regen EXCEPT !.pc = "returned", !.ret = "raised"]
    /\ UNCHANGED << history, regen_frame >>

\* the caller has the result; the next call may come
RegenerateDone ==
    /\ regen.pc = "returned"
    /\ regen' = [regen EXCEPT !.pc = "idle", !.calls = @ + 1]
    /\ UNCHANGED << history, regen_frame >>

RegenNext ==
    \/ RegenerateCall
    \/ \E raw \in RegenReplies, filtered \in BOOLEAN : RegenerateReply(raw, filtered)
    \/ RegenerateFail
    \/ RegenerateDone

SpecRegen == RegenInit /\ [][RegenNext]_vars

(***************************************************************************)
(* web_register of app/routers/users.py with one invitation code: each      *)
(* request has its own session (get_db_tx) on the same database             *)
(***************************************************************************)

\* the code has max_uses in 1..MaxUses; at most MaxRegistrations requests use it
MaxUses == 2
MaxRegistrations == 3

\* a request: where it stands, the used_count its session loaded, and its answer
NoRegistration == [pc |-> "idle", seen |-> 0, ret |-> 0]

InviteInit ==
    /\ \E n \in 1..MaxUses : inv_code = [max_uses |-> n, used_count |-> 0]
    /\ usages = {}
    /\ register = [r \in 1..MaxRegistrations |-> NoRegistration]
    /\ ChatIdle
    /\ RepairIdle
    /\ FilterIdle
    /\ ResetIdle
    /\ ConvIdle

invite_frame == << chat_vars, repair_vars, filter_vars, reset_vars, conv_vars >>

\* the two tests of validate_code on the number of uses
Exhausted(max_uses, used_count) ==
    \/ max_uses = 1 /\ used_count >= 1
    \/ max_uses > 1 /\ used_count >= max_uses

\* step 1 of web_register: validate_code selects the row of the code into the
\* session of the request; an exhausted code is answered with 400
validate_code(r) ==
    /\ register[r].pc = "idle"
    /\ \A i \in 1..(r - 1) : register[i].pc # "idle"
    /\ IF Exhausted(inv_code.max_uses, inv_code.used_count)
       THEN register' = [register EXCEPT ![r] = [pc |-> "done", seen |-> inv_code.used_count,
                                                 ret |-> 400]]
       ELSE register' = [register EXCEPT ![r] = [pc |-> "validated",
                                                 seen |-> inv_code.used_count, ret |-> 0]]
    /\ UNCHANGED << inv_code, usages, invite_frame >>

\* steps 2 to 5: the user is created and use_code adds one to the used_count of
\* the loaded row, adds the usage row and flushes; the UPDATE waits while another
\* session holds the row with an uncommitted UPDATE
use_code(r) ==
    /\ register[r].pc = "validated"
    /\ \A i \in DOMAIN register : register[i].pc # "flushed"
    /\ register' = [register EXCEPT ![r].pc = "flushed", ![r].seen = @ + 1]
    /\ UNCHANGED << inv_code, usages, invite_frame >>

\* the endpoint returns the token and get_db_tx commits the session
RegisterCommit(r) ==
    /\ register[r].pc = "flushed"
    /\ inv_code' = [inv_code EXCEPT !.used_count = register[r].seen]
    /\ usages' = usages \cup {r}
    /\ register' = [register EXCEPT ![r].pc = "done", ![r].ret = 200]
    /\ UNCHANGED invite_frame

\* the commit raises: get_db_tx rolls the session back
RegisterRollback(r) ==
    /\ register[r].pc = "flushed"
    /\ register' = [register EXCEPT ![r].pc = "done", ![r].ret = 500]
    /\ UNCHANGED << inv_code, usages, invite_frame >>

InviteNext ==
    \/ \E r \in 1..MaxRegistrations : validate_code(r)
    \/ \E r \in 1..MaxRegistrations : use_code(r)
    \/ \E r \in 1..MaxRegistrations : RegisterCommit(r)
    \/ \E r \in 1..MaxRegistrations : RegisterRollback(r)

SpecInvite == InviteInit /\ [][InviteNext]_vars

(***************************************************************************)
(* A stand-alone IncrementalNormalizer: any interval, any calls            *)
(***************************************************************************)

NormInit ==
    /\ \E i \in 1..MaxInterval : normalizer = IncrementalNormalizer(i)
    /\ last_ret = [op |-> "init", ret |-> None]
    /\ checkpoint = NoCheckpoint
    /\ kind = "start_chat"
    /\ db_on = FALSE
    /\ pc = "none"
    /\ events = << >>
    /\ final = << >>
    /\ fragments = << >>
    /\ history = << >>
    /\ db_messages = << >>
    /\ cancelled = FALSE
    /\ RepairIdle
    /\ FilterIdle
    /\ ResetIdle
    /\ ConvIdle
    /\ InviteIdle

\* normalizer.append(d)
CallAppend(d) ==
    /\ pc = "none"
    /\ normalizer._token_count < MaxAppends
    /\ \E r \in {append(normalizer, d)} :
           /\ normalizer' = r.self
           /\ last_ret' = [op |-> "append", ret |-> r.ret]
           /\ checkpoint' = IF r.ret.some
                            THEN [seen     |-> TRUE,
                                  returned |-> checkpoint.returned + 1,
                                  buffer   |-> Concat(fragments) \o d]
                            ELSE checkpoint
    /\ fragments' = Append(fragments, d)
    /\ UNCHANGED << kind, db_on, pc, events, final, history, db_messages, cancelled >>
    /\ UNCHANGED << repair_vars, filter_vars, reset_vars, conv_vars, invite_vars >>

\* normalizer.finalize()
CallFinalize ==
    /\ pc = "none"
    /\ \E r \in {finalize(normalizer)} :
           /\ normalizer' = r.self
           /\ last_ret' = [op |-> "finalize", ret |-> r.ret]
    /\ checkpoint' = [checkpoint EXCEPT !.seen = TRUE, !.buffer = Concat(fragments)]
    /\ UNCHANGED stream_vars
    /\ UNCHANGED << repair_vars, filter_vars, reset_vars, conv_vars, invite_vars >>

NormNext ==
    \/ \E d \in Pool : CallAppend(d)
    \/ CallFinalize

SpecNorm == NormInit /\ [][NormNext]_vars

(***************************************************************************)
(* normalize_markdown applied to a document, and again to its own output   *)
(***************************************************************************)

\* the lines the documents are made of: a fence, a heading, a field label with its
\* separator (U+5E74 U+67F1 U+FF1A), a word, an empty line, a list item
LinePool == { <<"u0060", "u0060", "u0060">>,
              <<"#", " ", "a">>,
              <<"u5e74", "u67f1", "uff1a">>,
              <<"b">>,
              << >>,
              <<"-", " ", "b">> }

MaxLines == 4
MaxPasses == 2

Documents ==
    { Join(ls, <<"\n">>) : ls \in UNION { [1..n -> LinePool] : n \in 1..MaxLines } }

RepairInit ==
    /\ doc \in Documents
    /\ repaired = << >>
    /\ scanned = << >>
    /\ legacy = << >>
    /\ ChatIdle
    /\ FilterIdle
    /\ ResetIdle
    /\ ConvIdle
    /\ InviteIdle

\* reply = normalize_markdown(...), on the document and then on what it returned
\* (as lines 230 and 247 of service.py do when the filter changes nothing)
Repair ==
    /\ Len(repaired) < MaxPasses
    /\ repaired' = Append(repaired,
                          normalize_markdown(IF repaired = << >> THEN doc
                                             ELSE repaired[Len(repaired)]))
    /\ UNCHANGED << doc, scanned, legacy, chat_vars, filter_vars, reset_vars, conv_vars, invite_vars >>

RepairNext == Repair

SpecRepair == RepairInit /\ [][RepairNext]_vars

(***************************************************************************)
(* The heading scan of normalize_markdown, iteration by iteration          *)
(***************************************************************************)

\* a line longer than the short-line limit
LONG_LINE == [k \in 1..(SHORT_LINE_MAX + 1) |-> "x"]

\* the heading lines of the documents: balanced, two brackets open, a closer
\* without an opener, a closer before two openers
ScanHeadings == { <<"#", " ", "a">>,
                  <<"#", " ", "a", "(", "(">>,
                  <<"#", " ", "a", ")">>,
                  <<"#", " ", ")", "(", "(">> }

\* the lines that follow them: an empty line, a word, a word that closes a round
\* bracket, a word that closes a square one, a list item, a field label (U+5E74
\* U+67F1 U+FF1A), a heading, a long line, a fenced code block on one line
ScanLines == { << >>,
               <<"b">>,
               <<"b", ")">>,
               <<"b", "]">>,
               <<"-", " ", "b">>,
               <<"u5e74", "u67f1", "uff1a">>,
               <<"#", " ", "c">>,
               LONG_LINE,
               <<"u0060", "u0060", "u0060", "b", "u0060", "u0060", "u0060">> }

MaxScanLines == 3

\* '### U+6027 U+683C U+5206 U+6790 (', 'U+5F00 U+6717 )', 'U+6B63 U+6587 '
BRACKET_EXAMPLE ==
    << <<"#", "#", "#", " ", "u6027", "u683c", "u5206", "u6790", "(">>,
       <<"u5f00", "u6717", ")">>,
       <<"u6b63", "u6587">> >>

\* '### U+51FA U+751F U+7ED3 U+6784 U+4E2A U+4EBA U+753B U+50CF U+603B U+89C8 U+5E74 U+67F1 U+FF1A U+4E59 U+5DF3 '
KEYWORD_EXAMPLE ==
    <<"#", "#", "#", " ", "u51fa", "u751f", "u7ed3", "u6784", "u4e2a", "u4eba", "u753b",
      "u50cf", "u603b", "u89c8", "u5e74", "u67f1", "uff1a", "u4e59", "u5df3">>

\* a one-line fenced block and an inline span
FENCE_B == <<"u0060", "u0060", "u0060", "b", "u0060", "u0060", "u0060">>
SPAN_A == <<"u0060", "a", "u0060">>

\* documents with code: a fenced block inside an inline span, two fenced blocks
\* around a span, spans in and after a heading, a span inside a multi-line fenced
\* block, and texts that hold the characters of a placeholder tag themselves
CodeDocuments ==
    { <<"u0060", "a", " ">> \o FENCE_B \o <<" ", "c", "u0060">>,
      FENCE_B \o <<" ">> \o SPAN_A \o <<" ">> \o FENCE_B,
      <<"#", " ", "a", " ">> \o SPAN_A \o <<"\n">> \o SPAN_A,
      SPAN_A \o <<"\n", "u0060", "u0060", "u0060", "\n">> \o SPAN_A
             \o <<"\n", "u0060", "u0060", "u0060">>,
      PlaceholderTag("F", 0) \o <<" ">> \o FENCE_B,
      SPAN_A \o <<" ", "u0060">> \o PlaceholderTag("I", 0) \o <<"u0060">> }

\* 'a', a break marker (at the end of the line or on a line of its own, in lower
\* or in upper case), an empty line, 'b'
BR_LOWER == <<"<", "b", "r", "/", ">">>
BR_UPPER == <<"<", "B", "R", "/", ">">>
BreakDocuments ==
    { <<"a">> \o nl \o br \o <<"\n", "\n", "b">> :
        nl \in { << >>, <<"\n">> }, br \in { BR_LOWER, BR_UPPER } }

\* a heading line followed by up to MaxScanLines lines; the bracket example as it
\* is and with an empty line before its last line; the field-label example alone
\* and followed by one line
ScanDocuments ==
    { Join(<< h >> \o ls, <<"\n">>) :
        h \in ScanHeadings, ls \in UNION { [1..n -> ScanLines] : n \in 1..MaxScanLines } }
    \cup { Join(BRACKET_EXAMPLE, <<"\n">>),
           Join(<< BRACKET_EXAMPLE[1], BRACKET_EXAMPLE[2], << >>, BRACKET_EXAMPLE[3] >>,
                <<"\n">>) }
    \cup { KEYWORD_EXAMPLE }
    \cup { Join(<< KEYWORD_EXAMPLE, l >>, <<"\n">>) : l \in ScanLines }
    \cup CodeDocuments
    \cup BreakDocuments

\* the text the heading scan works on: line endings unified, zero-width characters
\* removed, fenced blocks and then inline spans replaced by placeholders
Protected(md) ==
    _extract_placeholders(
        _extract_placeholders(
            RemoveChars(Replace(Replace(md, <<"\r", "\n">>, <<"\n">>), <<"\r">>, <<"\n">>),
                        ZERO_WIDTH),
            "_RE_FENCED", "F").text,
        "_RE_INLINE", "I").text

ScanInit ==
    /\ doc \in ScanDocuments
    /\ repaired = << >>
    /\ scanned = << >>
    /\ legacy = << >>
    /\ ChatIdle
    /\ FilterIdle
    /\ ResetIdle
    /\ ConvIdle
    /\ InviteIdle

\* the while loop of normalize_markdown over the lines of the protected text; the
\* scans of a document are looked at first, then its repairs
Scan ==
    /\ doc # << >>
    /\ scanned = << >>
    /\ repaired = << >>
    /\ scanned' = << HeadingTrace(SplitLines(Protected(doc)), 1),
                      HeadingScan(SplitLines(Protected(doc)), 1) >>
    /\ UNCHANGED << doc, repaired, legacy, chat_vars, filter_vars, reset_vars, conv_vars, invite_vars >>

\* the same loop in normalize_markdown of routers/chat.py, which the endpoints of
\* that router call
ScanLegacy ==
    /\ doc # << >>
    /\ scanned # << >>
    /\ legacy = << >>
    /\ repaired = << >>
    /\ legacy' = << LegacyHeadingTrace(SplitLines(Protected(doc)), 1) >>
    /\ UNCHANGED << doc, repaired, scanned, chat_vars, filter_vars, reset_vars, conv_vars, invite_vars >>

\* normalize_markdown on the document whose scans are known
RepairScanned ==
    /\ legacy # << >>
    /\ Repair

ScanNext ==
    \/ Scan
    \/ ScanLegacy
    \/ RepairScanned

SpecScan == ScanInit /\ [][ScanNext]_vars

(***************************************************************************)
(* The content filter (app/chat/content_filter.py)                         *)
(***************************************************************************)

CACHE_TTL == 300

\* the characters here that take three bytes in the rule table's encoding: every
\* "uXXXX" but the backtick
THREE_BYTE == (CJK \cup HEADING_TAIL_PUNCT \cup ZERO_WIDTH \cup {"u2014"}) \ {"\""}

RECURSIVE ByteLength(_)
\* func.length(SensitiveWord.word): LENGTH() of the rule table, a length in bytes
ByteLength(word) ==
    IF word = << >> THEN 0
    ELSE (IF Head(word) \in THREE_BYTE THEN 3 ELSE 1) + ByteLength(Tail(word))

\* an order_by with the priority ascending
QueryOrder_priority_ascending(a, b) ==
    \/ a.priority < b.priority
    \/ a.priority = b.priority /\ ByteLength(a.word) >= ByteLength(b.word)

\* the order_by of the query: priority descending, then length(word) descending
QueryOrder(a, b) ==
    \/ a.priority > b.priority
    \/ a.priority = b.priority /\ ByteLength(a.word) >= ByteLength(b.word)

\* .filter(SensitiveWord.status == 1)
ActiveRows(rows) == { w \in rows : w.status = 1 }

\* the lists the query can return for the rows of the table: the active rows in the
\* order of the order_by, rows that compare equal in any order
QueryResults(rows) ==
    { ws \in [1..Cardinality(ActiveRows(rows)) -> ActiveRows(rows)] :
         /\ \A i, j \in DOMAIN ws : i # j => ws[i] # ws[j]
         /\ \A i, j \in DOMAIN ws : i < j => QueryOrder(ws[i], ws[j]) }

\* [(w.word, w.replacement, w.is_regex) for w in words]
Mappings(ws) == [ i \in DOMAIN ws |-> << ws[i].word, ws[i].replacement, ws[i].is_regex >> ]

\* _sre.MAXREPEAT = 4294967295, as decimal digits
MAXREPEAT == <<"4", "2", "9", "4", "9", "6", "7", "2", "9", "5">>

\* the decimal number a is at least the decimal number b (no leading zeros)
DecimalAtLeast(a, b) ==
    \/ Len(a) > Len(b)
    \/ /\ Len(a) = Len(b)
       /\ \/ a = b
          \/ \E k \in 1..Len(a) :
                /\ \A u \in 1..(k - 1) : a[u] = b[u]
                /\ \E x, y \in 0..9 : /\ DecimalDigits(x) = << a[k] >>
                                      /\ DecimalDigits(y) = << b[k] >>
                                      /\ x > y

\* the characters that are not literal in a pattern
RE_SPECIAL == {".", "^", "$", "*", "+", "?", "{", "}", "[", "]", "\\", "|", "(", ")"}

\* the shape of a pattern of re.compile, for the patterns the rules here hold:
\* c, c+, c{n}, ^ and an unterminated group
PatternShape(word) ==
    IF word = <<"^">> THEN "anchor"
    ELSE IF Len(word) = 1 /\ word[1] \notin RE_SPECIAL THEN "char"
    ELSE IF Len(word) = 2 /\ word[1] \notin RE_SPECIAL /\ word[2] = "+" THEN "plus"
    ELSE IF /\ Len(word) >= 4
            /\ word[1] \notin RE_SPECIAL
            /\ word[2] = "{"
            /\ word[Len(word)] = "}"
            /\ \A k \in 3..(Len(word) - 1) : word[k] \in DIGITS
            /\ word[3] # "0"
         THEN "repeat"
    ELSE IF word # << >> /\ word[1] = "(" /\ \A k \in 1..Len(word) : word[k] # ")"
         THEN "unterminated"
    ELSE "other"

\* what re.compile(word) raises: nothing (""), re.error, or OverflowError for a
\* repetition number of MAXREPEAT or more
CompileError(word) ==
    CASE PatternShape(word) = "unterminated" -> "re.error"
      [] PatternShape(word) = "repeat"
         /\ DecimalAtLeast(Sub(word, 3, Len(word) - 1), MAXREPEAT) -> "OverflowError"
      [] OTHER -> ""

RECURSIVE DecimalValue(_)
DecimalValue(ds) ==
    IF ds = << >> THEN 0
    ELSE 10 * DecimalValue(Sub(ds, 1, Len(ds) - 1))
         + (CHOOSE x \in 0..9 : DecimalDigits(x) = << ds[Len(ds)] >>)

RECURSIVE SubRuns(_, _, _, _)
\* re.sub(c+, rep, s) from index i: every maximal run of c becomes rep
SubRuns(s, i, c, rep) ==
    LET k == FindChar(s, i, c)
    IN  IF k > Len(s) THEN Sub(s, i, Len(s))
        ELSE Sub(s, i, k - 1) \o rep
             \o SubRuns(s, SkipWhile(s, k, {c}), c, rep)

\* re.sub(word, replacement, text) of a pattern that compiles and a replacement
\* without escapes
SubPattern(word, replacement, text) ==
    CASE PatternShape(word) = "anchor" -> replacement \o text
      [] PatternShape(word) = "char"   -> Replace(text, word, replacement)
      [] PatternShape(word) = "plus"   -> SubRuns(text, 1, word[1], replacement)
      [] PatternShape(word) = "repeat" ->
             \* a repetition longer than the text matches nowhere
             IF DecimalAtLeast(DecimalDigits(Len(text)), Sub(word, 3, Len(word) - 1))
             THEN Replace(text,
                          [k \in 1..DecimalValue(Sub(word, 3, Len(word) - 1)) |-> word[1]],
                          replacement)
             ELSE text
      [] OTHER -> text

\* one turn of the loop of apply_content_filters: the text after the rule, and the
\* exception that leaves the function ("" when none does)
ApplyRule(rule, text) ==
    IF rule[3]
    THEN IF CompileError(rule[1]) = "" THEN [exc |-> "", text |-> SubPattern(rule[1], rule[2], text)]
         ELSE IF CompileError(rule[1]) = "re.error" THEN [exc |-> "", text |-> text]
         ELSE [exc |-> CompileError(rule[1]), text |-> text]
    ELSE [exc |-> "", text |-> Replace(text, rule[1], rule[2])]

RECURSIVE ApplyRules(_, _, _)
\* the loop over mappings from rule k on
ApplyRules(mappings, k, text) ==
    IF k > Len(mappings) THEN [exc |-> "", text |-> text]
    ELSE IF ApplyRule(mappings[k], text).exc # "" THEN ApplyRule(mappings[k], text)
    ELSE ApplyRules(mappings, k + 1, ApplyRule(mappings[k], text).text)

\* the class [U+4E00-U+9FFF U+3000-U+303F U+FF00-U+FFEF] of the heading fix, for the
\* characters the texts here can hold
HEADING_FIX_CLASS == CJK \cup (HEADING_TAIL_PUNCT \ {"\""})

HEADING_FIX_MAX == 5

\* the first newline at or after q when s[q] starts a non-empty stretch of a line and
\* a run of 1..5 class characters closed by a newline follows that newline; 0 if not
HeadingFixLineEnd(s, q) ==
    IF q > Len(s) \/ s[q] = "\n" THEN 0
    ELSE IF FindChar(s, q, "\n") > Len(s) THEN 0
    ELSE IF /\ SkipWhile(s, FindChar(s, q, "\n") + 1, HEADING_FIX_CLASS)
                  - (FindChar(s, q, "\n") + 1) \in 1..HEADING_FIX_MAX
            /\ SkipWhile(s, FindChar(s, q, "\n") + 1, HEADING_FIX_CLASS) <= Len(s)
            /\ s[SkipWhile(s, FindChar(s, q, "\n") + 1, HEADING_FIX_CLASS)] = "\n"
         THEN FindChar(s, q, "\n")
    ELSE 0

\* the match of ^(#{1,6}\s+.+?)\n(class{1,5})\n at the line start p: where the
\* lazy .+? ends (the index of its newline), 0 when there is no match; \s+ is
\* greedy, so the longest stretch of whitespace that lets the rest match wins
HeadingFixMatch(s, p) ==
    IF /\ SkipWhile(s, p, {"#"}) - p \in 1..MAX_HASHES
       /\ SkipWhile(s, SkipWhile(s, p, {"#"}), WS) > SkipWhile(s, p, {"#"})
    THEN IF \E q \in (SkipWhile(s, p, {"#"}) + 1)..SkipWhile(s, SkipWhile(s, p, {"#"}), WS) :
                HeadingFixLineEnd(s, q) # 0
         THEN HeadingFixLineEnd(s,
                  CHOOSE q \in (SkipWhile(s, p, {"#"}) + 1)..SkipWhile(s, SkipWhile(s, p, {"#"}), WS) :
                      /\ HeadingFixLineEnd(s, q) # 0
                      /\ \A q2 \in (q + 1)..SkipWhile(s, SkipWhile(s, p, {"#"}), WS) :
                            HeadingFixLineEnd(s, q2) = 0)
         ELSE 0
    ELSE 0

RECURSIVE HeadingFixFrom(_, _)
\* re.sub(r'^(#{1,6}\s+.+?)\n([...]{1,5})\n', r'\1\2\n', s, flags=re.MULTILINE) from
\* the line start p on: the matches are taken left to right and do not overlap
HeadingFixFrom(s, p) ==
    IF p > Len(s) THEN << >>
    ELSE IF HeadingFixMatch(s, p) # 0
    THEN Sub(s, p, HeadingFixMatch(s, p) - 1)
         \o Sub(s, HeadingFixMatch(s, p) + 1,
                   SkipWhile(s, HeadingFixMatch(s, p) + 1, HEADING_FIX_CLASS))
         \o HeadingFixFrom(s, SkipWhile(s, HeadingFixMatch(s, p) + 1, HEADING_FIX_CLASS) + 1)
    ELSE IF FindChar(s, p, "\n") > Len(s) THEN Sub(s, p, Len(s))
    ELSE Sub(s, p, FindChar(s, p, "\n")) \o HeadingFixFrom(s, FindChar(s, p, "\n") + 1)

HeadingFix(s) == HeadingFixFrom(s, 1)

(***************************************************************************)
(* The one-shot reply paths (start_chat, send_chat, regenerate of           *)
(* app/chat/service.py) as threads that call the content filter, and the   *)
(* admin endpoints (app/routers/sensitive_words.py) that change the rule   *)
(* table and call clear_cache.  No lock guards _cache and _cache_time, so a *)
(* step is one read or one write of a global.                              *)
(***************************************************************************)

MaxHandlers == 2
MaxTicks == 1
MaxMutations == 1

USER_MESSAGE == <<"q">>

Row(word, replacement, is_regex, priority, status) ==
    [word |-> word, replacement |-> replacement, is_regex |-> is_regex,
     priority |-> priority, status |-> status]

\* the rule tables at process start
RuleStores ==
    { {},
      { Row(<<"u5927", "u5409">>, <<"u975e", "u5e38", "u79ef", "u6781">>, FALSE, 10, 1),
        Row(<<"u5409">>, <<"u597d">>, FALSE, 1, 1) },
      { Row(<<"a", "a">>, <<"X">>, FALSE, 10, 1), Row(<<"a">>, <<"Y">>, FALSE, 1, 1) },
      { Row(<<"u5927", "u5409">>, <<"a", "b", "c">>, FALSE, 0, 1),
        Row(<<"a", "b", "c">>, <<"X">>, FALSE, 0, 1) },
      { Row(<<"a", "{", "4", "2", "9", "4", "9", "6", "7", "2", "9", "6", "}">>, <<"X">>, TRUE, 5, 1),
        Row(<<"a">>, <<"Y">>, FALSE, 1, 1) },
      { Row(<<"(">>, <<"X">>, TRUE, 5, 1), Row(<<"a", "+">>, <<"Y">>, TRUE, 1, 1),
        Row(<<"^">>, <<"Z">>, TRUE, 0, 1), Row(<<"u5409">>, <<"W">>, FALSE, 9, 0) } }

\* the rule table of the runs with more than one reply in flight
ConcurrentStore == { Row(<<"a">>, <<"Y">>, FALSE, 1, 1) }

\* what call_deepseek returns
RawReplies ==
    { <<"u4eca", "u5929", "u5927", "u5409">>, <<"a", "a", "a">>, <<"u5409">>, << >>,
      <<"#", " ", "a", "\n", "u5409", "\n", "a">> }

ConcurrentReplies == { <<"a">> }

\* what is remembered of a call of get_word_mappings until its result is used:
\* need, the newest table whose clear_cache had returned when the call began;
\* fresh, the snapshot that was cached with a stamp less than CACHE_TTL old when
\* the call began; alone, no other thread wrote the cache during the call;
\* queried, the call read the table; kept, the cache and stamp at its return
NoGhost ==
    [need |-> 0, alone |-> TRUE, queried |-> FALSE, fresh |-> NoSnapshot,
     kept |-> << NoSnapshot, NoTime >>]

\* a thread of the pool that serves no request
IdleHandler ==
    [pc |-> "idle", path |-> "none", conv |-> FALSE, hist |-> << >>,
     reply0 |-> << >>, reply |-> << >>, applied |-> None, now |-> 0,
     words |-> NoSnapshot, mappings |-> NoSnapshot, exc |-> "", ret |-> None, g |-> NoGhost]

\* a thread whose next request belongs to a conversation that exists
OldConversation ==
    [IdleHandler EXCEPT !.conv = TRUE,
                        !.hist = << [role |-> "user", content |-> USER_MESSAGE],
                                    [role |-> "assistant", content |-> <<"r">>] >>]

\* one request thread alone with a rule table and a reply of any kind, or request
\* threads that open conversations and an admin, with a table of one rule; each
\* thread serves one request, the threads numbered as the requests arrive
FilterInit ==
    /\ handlers \in { <<IdleHandler>>, <<OldConversation>> }
                     \cup { [i \in 1..n |-> IdleHandler] : n \in 2..MaxHandlers }
    /\ rule_store \in (IF Len(handlers) > 1 THEN {ConcurrentStore} ELSE RuleStores)
    /\ filter_enabled \in (IF Len(handlers) > 1 THEN {FILTER_ENABLED} ELSE BOOLEAN)
    /\ _cache = NoSnapshot
    /\ _cache_time = NoTime
    /\ clock = 0
    /\ admin = [pc |-> IF Len(handlers) > 1 THEN "off" ELSE "absent", v |-> 1]
    /\ audit = [stores |-> << rule_store >>, cleared |-> 1, ticks |-> 0]
    /\ ChatIdle
    /\ RepairIdle
    /\ ResetIdle
    /\ ConvIdle
    /\ InviteIdle

\* the statements of get_word_mappings
GWM_PCS == {"check_cache", "check_time", "age", "return_cached", "query",
            "store_cache", "store_time", "return_new"}

\* thread self writes _cache or _cache_time: the calls of get_word_mappings that
\* other threads are in are no longer alone with the cache
Disturb(hs, self) ==
    [ i \in DOMAIN hs |->
        IF i # self /\ hs[i].pc \in GWM_PCS THEN [hs[i] EXCEPT !.g.alone = FALSE] ELSE hs[i] ]

\* a handler without the except clause: the exception leaves the request
except_reraise(h, e) == [h EXCEPT !.pc = "raised", !.exc = e]

\* except Exception: pass -- reply keeps the repaired text it had before the try
except_pass(h, e) == [h EXCEPT !.pc = "persist", !.exc = e]

\* the reply before the filter
Repaired(path, raw) ==
    IF path = "regenerate" THEN normalize_markdown(raw)
    ELSE Cleanup(Strip(normalize_markdown(raw)))

\* a request arrives: start_chat opens a conversation, send_chat needs one,
\* regenerate needs one whose last message is the assistant's and pops it
ReplyStart(self, path, raw) ==
    /\ handlers[self].pc = "idle"
    /\ handlers[self].path = "none"
    /\ \A i \in 1..(self - 1) : handlers[i].path # "none"
    /\ raw \in (IF Len(handlers) > 1 THEN ConcurrentReplies ELSE RawReplies)
    /\ CASE path = "start_chat" -> TRUE
         [] path = "send_chat"  -> handlers[self].conv
         [] path = "regenerate" ->
                /\ handlers[self].conv
                /\ handlers[self].hist # << >>
                /\ handlers[self].hist[Len(handlers[self].hist)].role = "assistant"
    /\ \E r \in {Repaired(path, raw)} :
         handlers' = [handlers EXCEPT ![self] =
            [@ EXCEPT !.pc = "open", !.path = path, !.conv = TRUE,
                      !.hist = CASE path = "start_chat" -> << >>
                                 [] path = "send_chat" -> @
                                 [] path = "regenerate" -> Sub(@, 1, Len(@) - 1),
                      !.reply0 = r, !.reply = r, !.applied = None, !.now = 0,
                      !.words = NoSnapshot, !.mappings = NoSnapshot, !.exc = "",
                      !.ret = None, !.g = NoGhost]]
    /\ UNCHANGED << rule_store, _cache, _cache_time, clock, filter_enabled, admin, audit >>
    /\ UNCHANGED << chat_vars, repair_vars, reset_vars, conv_vars, invite_vars >>

\* with utils.db_session() as filter_db: next(get_db()) raises
OpenSession_Fails(self) ==
    /\ handlers[self].pc = "open"
    /\ handlers' = [handlers EXCEPT ![self] = except_pass(@, "OperationalError")]
    /\ UNCHANGED << rule_store, _cache, _cache_time, clock, filter_enabled, admin, audit >>
    /\ UNCHANGED << chat_vars, repair_vars, reset_vars, conv_vars, invite_vars >>

\* an apply that does not look at the flag
FilterDisabled_ignored == FALSE

\* if not FILTER_ENABLED
FilterDisabled == ~filter_enabled

\* the reply after the filter returned: the heading fix, then the repair
AfterFilter(h, text) ==
    [h EXCEPT !.pc = "persist", !.applied = [some |-> TRUE, text |-> text],
              !.reply = normalize_markdown(HeadingFix(text))]

\* the session opens; apply_content_filters up to the call of get_word_mappings
\* and its now = datetime.now()
ApplyEnter(self) ==
    /\ handlers[self].pc = "open"
    /\ handlers' = [handlers EXCEPT ![self] =
          IF @.reply = << >> \/ FilterDisabled
          THEN AfterFilter(@, @.reply)
          ELSE [@ EXCEPT !.pc = "check_cache", !.now = clock,
                         !.g = [NoGhost EXCEPT
                                  !.need = audit.cleared,
                                  !.fresh = IF /\ _cache.some /\ _cache_time.some
                                               /\ clock - _cache_time.t < CACHE_TTL
                                            THEN _cache ELSE NoSnapshot]]]
    /\ UNCHANGED << rule_store, _cache, _cache_time, clock, filter_enabled, admin, audit >>
    /\ UNCHANGED << chat_vars, repair_vars, reset_vars, conv_vars, invite_vars >>

\* if _cache is not None
CheckCache(self) ==
    /\ handlers[self].pc = "check_cache"
    /\ handlers' = [handlers EXCEPT ![self].pc = IF _cache.some THEN "check_time" ELSE "query"]
    /\ UNCHANGED << rule_store, _cache, _cache_time, clock, filter_enabled, admin, audit >>
    /\ UNCHANGED << chat_vars, repair_vars, reset_vars, conv_vars, invite_vars >>

\* and _cache_time is not None
CheckTime(self) ==
    /\ handlers[self].pc = "check_time"
    /\ handlers' = [handlers EXCEPT ![self].pc = IF _cache_time.some THEN "age" ELSE "query"]
    /\ UNCHANGED << rule_store, _cache, _cache_time, clock, filter_enabled, admin, audit >>
    /\ UNCHANGED << chat_vars, repair_vars, reset_vars, conv_vars, invite_vars >>

\* a freshness test that also takes a snapshot of exactly CACHE_TTL seconds
Fresh_inclusive(now, t) == now - t <= CACHE_TTL

\* (now - _cache_time).total_seconds() < CACHE_TTL
Fresh(now, t) == now - t < CACHE_TTL

\* the second read of _cache_time: now - None is a TypeError
CheckAge(self) ==
    /\ handlers[self].pc = "age"
    /\ handlers' = [handlers EXCEPT ![self] =
          IF ~_cache_time.some THEN except_pass(@, "TypeError")
          ELSE IF Fresh(@.now, _cache_time.t) THEN [@ EXCEPT !.pc = "return_cached"]
          ELSE [@ EXCEPT !.pc = "query"]]
    /\ UNCHANGED << rule_store, _cache, _cache_time, clock, filter_enabled, admin, audit >>
    /\ UNCHANGED << chat_vars, repair_vars, reset_vars, conv_vars, invite_vars >>

\* get_word_mappings hands back what it reads from _cache at its return
Return(h) ==
    [h EXCEPT !.pc = "fold", !.mappings = _cache, !.g.kept = << _cache, _cache_time >>]

\* return _cache (line 36)
ReturnCached(self) ==
    /\ handlers[self].pc = "return_cached"
    /\ handlers' = [handlers EXCEPT ![self] = Return(@)]
    /\ UNCHANGED << rule_store, _cache, _cache_time, clock, filter_enabled, admin, audit >>
    /\ UNCHANGED << chat_vars, repair_vars, reset_vars, conv_vars, invite_vars >>

\* words = db.query(...).filter(...).order_by(...).all()
Query(self) ==
    /\ handlers[self].pc = "query"
    /\ \E ws \in QueryResults(rule_store) :
         handlers' = [handlers EXCEPT ![self] =
            [@ EXCEPT !.pc = "store_cache", !.g.queried = TRUE,
                      !.words = [some |-> TRUE, rules |-> Mappings(ws),
                                 loaded |-> Len(audit.stores)]]]
    /\ UNCHANGED << rule_store, _cache, _cache_time, clock, filter_enabled, admin, audit >>
    /\ UNCHANGED << chat_vars, repair_vars, reset_vars, conv_vars, invite_vars >>

\* ... or the rule table cannot be read
Query_Fails(self) ==
    /\ handlers[self].pc = "query"
    /\ handlers' = [handlers EXCEPT ![self] =
          except_pass([@ EXCEPT !.g.queried = TRUE], "OperationalError")]
    /\ UNCHANGED << rule_store, _cache, _cache_time, clock, filter_enabled, admin, audit >>
    /\ UNCHANGED << chat_vars, repair_vars, reset_vars, conv_vars, invite_vars >>

\* _cache = [(w.word, w.replacement, w.is_regex) for w in words]
StoreCache(self) ==
    /\ handlers[self].pc = "store_cache"
    /\ _cache' = handlers[self].words
    /\ handlers' = [Disturb(handlers, self) EXCEPT ![self].pc = "store_time"]
    /\ UNCHANGED << rule_store, _cache_time, clock, filter_enabled, admin, audit >>
    /\ UNCHANGED << chat_vars, repair_vars, reset_vars, conv_vars, invite_vars >>

\* _cache_time = now
StoreTime(self) ==
    /\ handlers[self].pc = "store_time"
    /\ _cache_time' = [some |-> TRUE, t |-> handlers[self].now]
    /\ handlers' = [Disturb(handlers, self) EXCEPT ![self].pc = "return_new"]
    /\ UNCHANGED << rule_store, _cache, clock, filter_enabled, admin, audit >>
    /\ UNCHANGED << chat_vars, repair_vars, reset_vars, conv_vars, invite_vars >>

\* return _cache (line 48)
ReturnNew(self) ==
    /\ handlers[self].pc = "return_new"
    /\ handlers' = [handlers EXCEPT ![self] = Return(@)]
    /\ UNCHANGED << rule_store, _cache, _cache_time, clock, filter_enabled, admin, audit >>
    /\ UNCHANGED << chat_vars, repair_vars, reset_vars, conv_vars, invite_vars >>

\* for word, replacement, is_regex in mappings: ... return text, then the rest of
\* the try block of the caller; iterating None is a TypeError
Fold(self) ==
    /\ handlers[self].pc = "fold"
    /\ \E r \in { IF handlers[self].mappings.some
                  THEN ApplyRules(handlers[self].mappings.rules, 1, handlers[self].reply)
                  ELSE [exc |-> "TypeError", text |-> << >>] } :
         handlers' = [handlers EXCEPT ![self] =
            IF r.exc # "" THEN except_pass([@ EXCEPT !.g = NoGhost], r.exc)
            ELSE AfterFilter([@ EXCEPT !.g = NoGhost], r.text)]
    /\ UNCHANGED << rule_store, _cache, _cache_time, clock, filter_enabled, admin, audit >>
    /\ UNCHANGED << chat_vars, repair_vars, reset_vars, conv_vars, invite_vars >>

\* append_history(cid, "user", message) on start_chat and send_chat,
\* append_history(cid, "assistant", reply), and the reply goes back to the caller
Persist(self) ==
    /\ handlers[self].pc = "persist"
    /\ handlers' = [handlers EXCEPT ![self] =
          [@ EXCEPT !.pc = "idle", !.now = 0, !.words = NoSnapshot, !.mappings = NoSnapshot,
                    !.applied = None, !.g = NoGhost,
                    !.hist = (IF handlers[self].path = "regenerate" THEN @
                              ELSE Append(@, [role |-> "user", content |-> USER_MESSAGE]))
                             \o << [role |-> "assistant", content |-> handlers[self].reply] >>,
                    !.ret = [some |-> TRUE, text |-> handlers[self].reply]]]
    /\ UNCHANGED << rule_store, _cache, _cache_time, clock, filter_enabled, admin, audit >>
    /\ UNCHANGED << chat_vars, repair_vars, reset_vars, conv_vars, invite_vars >>

\* the tables svc.disable_word / enable_word can commit
Mutations(rows) ==
    { (rows \ {w}) \cup {[w EXCEPT !.status = 0]} : w \in { w \in rows : w.status = 1 } }
    \cup { (rows \ {w}) \cup {[w EXCEPT !.status = 1]} : w \in { w \in rows : w.status = 0 } }

\* an admin endpoint commits its change of the rule table; clear_cache() follows
Mutate ==
    /\ admin.pc = "off"
    /\ Len(audit.stores) <= MaxMutations
    /\ \E rows \in Mutations(rule_store) :
         /\ rule_store' = rows
         /\ audit' = [audit EXCEPT !.stores = Append(@, rows)]
    /\ admin' = [pc |-> "clear1", v |-> Len(audit.stores) + 1]
    /\ UNCHANGED << _cache, _cache_time, clock, filter_enabled, handlers >>
    /\ UNCHANGED << chat_vars, repair_vars, reset_vars, conv_vars, invite_vars >>

\* _cache = None
Clear1 ==
    /\ admin.pc = "clear1"
    /\ _cache' = NoSnapshot
    /\ admin' = [admin EXCEPT !.pc = "clear2"]
    /\ handlers' = Disturb(handlers, 0)
    /\ UNCHANGED << rule_store, _cache_time, clock, filter_enabled, audit >>
    /\ UNCHANGED << chat_vars, repair_vars, reset_vars, conv_vars, invite_vars >>

\* _cache_time = None; clear_cache returns
Clear2 ==
    /\ admin.pc = "clear2"
    /\ _cache_time' = NoTime
    /\ admin' = [admin EXCEPT !.pc = "off"]
    /\ handlers' = Disturb(handlers, 0)
    /\ audit' = [audit EXCEPT !.cleared = IF admin.v > @ THEN admin.v ELSE @]
    /\ UNCHANGED << rule_store, _cache, clock, filter_enabled >>
    /\ UNCHANGED << chat_vars, repair_vars, reset_vars, conv_vars, invite_vars >>

\* time passes; the clock is read by now = datetime.now() alone, so it is enough
\* that time passes just before it
Tick(d) ==
    /\ audit.ticks < MaxTicks
    /\ \E self \in DOMAIN handlers : handlers[self].pc = "open"
    /\ clock' = clock + d
    /\ audit' = [audit EXCEPT !.ticks = @ + 1]
    /\ UNCHANGED << rule_store, _cache, _cache_time, filter_enabled, handlers, admin >>
    /\ UNCHANGED << chat_vars, repair_vars, reset_vars, conv_vars, invite_vars >>

FilterNext ==
    \/ \E self \in DOMAIN handlers, path \in {"start_chat", "send_chat", "regenerate"},
          raw \in RawReplies \cup ConcurrentReplies : ReplyStart(self, path, raw)
    \/ \E self \in DOMAIN handlers : OpenSession_Fails(self)
    \/ \E self \in DOMAIN handlers : ApplyEnter(self)
    \/ \E self \in DOMAIN handlers : CheckCache(self)
    \/ \E self \in DOMAIN handlers : CheckTime(self)
    \/ \E self \in DOMAIN handlers : CheckAge(self)
    \/ \E self \in DOMAIN handlers : ReturnCached(self)
    \/ \E self \in DOMAIN handlers : Query(self)
    \/ \E self \in DOMAIN handlers : Query_Fails(self)
    \/ \E self \in DOMAIN handlers : StoreCache(self)
    \/ \E self \in DOMAIN handlers : StoreTime(self)
    \/ \E self \in DOMAIN handlers : ReturnNew(self)
    \/ \E self \in DOMAIN handlers : Fold(self)
    \/ \E self \in DOMAIN handlers : Persist(self)
    \/ Mutate
    \/ Clear1
    \/ Clear2
    \/ \E d \in {CACHE_TTL - 1, CACHE_TTL} : Tick(d)

SpecFilter == FilterInit /\ [][FilterNext]_vars

(***************************************************************************)
(* Password reset (app/routers/users.py, app/services/password_reset.py)   *)
(***************************************************************************)

MAX_FAILED_ATTEMPTS == 5

MaxCodes == 2
MaxRequests == 7

\* PasswordResetCode(email, code, expires_at): not used, no failed attempt
NewCode == [failed_attempts |-> 0, is_used |-> FALSE, expired |-> FALSE]

\* the rows of the email that are not used and not expired expire now, and a new
\* row is added
create_reset_code(codes) ==
    Append([ i \in DOMAIN codes |->
               IF ~codes[i].is_used THEN [codes[i] EXCEPT !.expired = TRUE] ELSE codes[i] ],
           NewCode)

\* the latest row that is not used and not expired, 0 if there is none
ValidCode(codes) ==
    IF \E i \in DOMAIN codes : ~codes[i].is_used /\ ~codes[i].expired
    THEN CHOOSE i \in DOMAIN codes :
             /\ ~codes[i].is_used /\ ~codes[i].expired
             /\ \A j \in DOMAIN codes : (~codes[j].is_used /\ ~codes[j].expired) => j <= i
    ELSE 0

\* on the session tx (the rows and the password hash as the transaction sees
\* them): the tuple returned and what the session has flushed; hash_password
\* raises no ValueError for the passwords the request schema lets through
verify_and_reset_password(tx, code) ==
    IF tx.password = "none"
    THEN [success |-> FALSE, message |-> "no_user", tx |-> tx]
    ELSE IF ValidCode(tx.codes) = 0
    THEN [success |-> FALSE, message |-> "no_code", tx |-> tx]
    ELSE IF tx.codes[ValidCode(tx.codes)].failed_attempts >= MAX_FAILED_ATTEMPTS
    THEN [success |-> FALSE, message |-> "invalidated", tx |-> tx]
    ELSE IF code # "right"
    THEN [success |-> FALSE,
          message |-> IF MAX_FAILED_ATTEMPTS
                             - (tx.codes[ValidCode(tx.codes)].failed_attempts + 1) > 0
                      THEN "wrong_code" ELSE "invalidated",
          tx |-> [tx EXCEPT !.codes[ValidCode(tx.codes)].failed_attempts = @ + 1]]
    ELSE [success |-> TRUE, message |-> "reset",
          tx |-> [tx EXCEPT !.password = "new",
                            !.codes[ValidCode(tx.codes)].is_used = TRUE]]

\* the dependency after its yield: db.commit() when the endpoint returned,
\* db.rollback() when it raised
get_db_tx(committed, tx, raised) == IF raised THEN committed ELSE tx

\* the email has an account or not; a reset code may have been sent already
ResetInit ==
    /\ password \in {"old", "none"}
    /\ reset_codes \in (IF password = "none" THEN { << >> } ELSE { << >>, << NewCode >> })
    /\ reset_req = NoRequest
    /\ reset_log = << >>
    /\ ChatIdle
    /\ RepairIdle
    /\ FilterIdle
    /\ ConvIdle
    /\ InviteIdle

\* POST /auth/password-reset/send-code for the registered email, answered
SendResetCode ==
    /\ reset_req.pc = "idle"
    /\ password # "none"
    /\ Len(reset_codes) < MaxCodes
    /\ reset_codes' = create_reset_code(reset_codes)
    /\ UNCHANGED << password, reset_req, reset_log >>
    /\ UNCHANGED << chat_vars, repair_vars, filter_vars, conv_vars, invite_vars >>

\* POST /auth/password-reset/reset arrives with the code that was mailed or with
\* another one; get_db_tx opens the session
ResetStart(code) ==
    /\ reset_req.pc = "idle"
    /\ Len(reset_log) < MaxRequests
    /\ reset_req' = [NoRequest EXCEPT !.pc = "verify", !.code = code,
                                      !.tx = [codes |-> reset_codes, password |-> password]]
    /\ UNCHANGED << reset_codes, password, reset_log >>
    /\ UNCHANGED << chat_vars, repair_vars, filter_vars, conv_vars, invite_vars >>

\* success, message = verify_and_reset_password(db, ...)
Verify ==
    /\ reset_req.pc = "verify"
    /\ \E r \in { verify_and_reset_password(reset_req.tx, reset_req.code) } :
         reset_req' = [reset_req EXCEPT !.pc = "respond", !.tx = r.tx,
                                        !.ret = [success |-> r.success, message |-> r.message]]
    /\ UNCHANGED << reset_codes, password, reset_log >>
    /\ UNCHANGED << chat_vars, repair_vars, filter_vars, conv_vars, invite_vars >>

\* if not success: raise HTTPException(400), else the response; get_db_tx ends
\* the transaction; the log keeps the row the request was about and the failed
\* attempts recorded for it afterwards
Respond ==
    /\ reset_req.pc = "respond"
    /\ \E c \in { get_db_tx([codes |-> reset_codes, password |-> password],
                            reset_req.tx, ~reset_req.ret.success) } :
         /\ reset_codes' = c.codes
         /\ password' = c.password
         /\ reset_log' = Append(reset_log,
                [row |-> ValidCode(reset_codes), code |-> reset_req.code,
                 status |-> IF reset_req.ret.success THEN 200 ELSE 400,
                 message |-> reset_req.ret.message,
                 failed_attempts |-> IF ValidCode(reset_codes) = 0 THEN 0
                                     ELSE c.codes[ValidCode(reset_codes)].failed_attempts])
    /\ reset_req' = NoRequest
    /\ UNCHANGED << chat_vars, repair_vars, filter_vars, conv_vars, invite_vars >>

ResetNext ==
    \/ SendResetCode
    \/ \E code \in {"right", "wrong"} : ResetStart(code)
    \/ Verify
    \/ Respond

SpecReset == ResetInit /\ [][ResetNext]_vars

(***************************************************************************)
(* Properties                                                              *)
(***************************************************************************)

InitialHistory == IF kind = "send_chat" THEN PriorHistory ELSE << >>

\* the messages the stream has appended to the conversation history
Saved == SubSeq(history, Len(InitialHistory) + 1, Len(history))

\* the generator body has been entered
Started == pc \notin {"created", "abandoned", "none"}

IsTerminal(e) == e.type \in {"done", "error"}

TextIndexes == { i \in 1..Len(events) : events[i].type = "text" }

LastText == events[CHOOSE i \in TextIndexes : \A j \in TextIndexes : j <= i]

\* the assistant texts handed to persistence: conversation history and Message rows
PersistedAssistant ==
    { Saved[i].content : i \in { k \in 1..Len(Saved) : Saved[k].role = "assistant" } }
    \cup { db_messages[i].content :
             i \in { k \in 1..Len(db_messages) : db_messages[k].role = "assistant" } }

\* repair followed by the cleanup pass of the normalizer
NormalizerOutput(raw) ==
    third_sub(collapse_double_newlines(scrub_br_block(normalize_markdown(raw))))

Contains(s, pat) == FindSeq(s, 1, pat) # 0

Count(seq, P(_)) == Cardinality({ i \in 1..Len(seq) : P(seq[i]) })

\* C1: on a stream that delivered Done or Error (and that the consumer read to its
\* end), the assistant text handed to persistence equals the content of the last
\* Text event delivered.
C1_PersistedEqualsLastText ==
    ~cancelled /\ (\E i \in 1..Len(events) : IsTerminal(events[i])) /\ TextIndexes # {}
        => \A t \in PersistedAssistant : t = LastText.content

\* C2: when the upstream fails after at least one fragment, the persisted text is
\* the result of finalize() over the fragments accumulated before the failure.
C2_ErrorPersistsFinalize ==
    ~cancelled /\ (\E i \in 1..Len(events) : events[i] = Error(<<"u", "p", "s", "t", "r", "e", "a", "m">>))
    /\ normalizer._raw_chunks # << >>
        => \A t \in PersistedAssistant : t = finalize(normalizer).ret.text

\* C3: when the consumer closes a started stream at a yield point (on a stream
\* without an Error event), the persisted assistant text is finalize() over all
\* fragments received up to the disconnection.
C3_DisconnectPersistsFinalize ==
    cancelled /\ Started /\ (\A i \in 1..Len(events) : events[i].type # "error")
        => \A t \in PersistedAssistant : t = finalize(normalizer).ret.text

\* C4: the event sequence is Meta, then zero or more Text, then one terminal event
\* (Done or Error): Meta is first and unique, nothing follows a terminal event, and
\* a stream that ran to its end without being closed has exactly one terminal event.
C4_EventShape ==
    /\ IF Started THEN events # << >> /\ events[1] = Meta ELSE events = << >>
    /\ \A i \in 2..Len(events) : events[i].type # "meta"
    /\ \A i \in 1..(Len(events) - 1) : ~IsTerminal(events[i])
    /\ \A i \in 2..(Len(events) - 1) : events[i].type = "text" /\ events[i].replace
    /\ pc \in {"finally_user", "finally_assistant", "finally_db", "closed"} /\ ~cancelled
          => Count(events, IsTerminal) = 1 /\ IsTerminal(events[Len(events)])

\* C4 witness: a stream that failed mid-stream after a checkpoint text was delivered
C4_Witness ==
    /\ pc = "closed" /\ ~cancelled
    /\ Len(events) = 3
    /\ events[2].type = "text"
    /\ events[3].type = "error"

\* C5: for a started stream the persistence step runs exactly once, whichever way
\* the loop exits: one user message then one assistant message are appended to the
\* history, never none and never two; the Message rows never hold a role twice.
C5_PersistedExactlyOnce ==
    /\ Len(Saved) <= 2
    /\ Count(Saved, LAMBDA m : m.role = "user") <= 1
    /\ Count(Saved, LAMBDA m : m.role = "assistant") <= 1
    /\ Count(db_messages, LAMBDA m : m.role = "user") <= 1
    /\ Count(db_messages, LAMBDA m : m.role = "assistant") <= 1
    /\ pc = "closed" /\ Started
          => Saved = << [role |-> "user", content |-> user_msg],
                        [role |-> "assistant", content |-> final] >>
    /\ ~Started => Saved = << >>

\* C5 witness: a stream closed by the consumer after a checkpoint text, persisted
C5_Witness ==
    /\ pc = "closed" /\ cancelled /\ Started
    /\ events[Len(events)].type = "text"
    /\ Len(Saved) = 2

\* C6: with filtering enabled and an active literal rule p -> r where r does not
\* contain p, no Text event delivered and no persisted assistant text contains p.
C6_StreamIsFiltered ==
    FILTER_ENABLED =>
        \A k \in 1..Len(sensitive_words) :
            LET rule == sensitive_words[k]
            IN  rule.status = 1 /\ ~rule.is_regex /\ ~Contains(rule.replacement, rule.word)
                    => /\ \A i \in TextIndexes : ~Contains(events[i].content, rule.word)
                       /\ \A t \in PersistedAssistant : ~Contains(t, rule.word)

\* C7: every Text event carries replace = true, and at the yield that delivers it
\* its content is the normalizer's output over the concatenation of all (non-empty)
\* fragments received so far.
C7_TextIsFullRendering ==
    /\ \A i \in TextIndexes : events[i].replace
    /\ pc \in {"yield_text", "yield_final"}
          => /\ events[Len(events)].type = "text"
             /\ events[Len(events)].content = NormalizerOutput(Concat(fragments))

\* C7 witness: the final text is delivered after a checkpoint text and later fragments
C7_Witness ==
    /\ pc = "yield_final"
    /\ Cardinality(TextIndexes) = 2
    /\ Len(fragments) > NORMALIZE_INTERVAL
    /\ events[2].content # events[3].content

\* C8: finalize() equals repair(concatenation of all fragments) followed by the
\* cleanup pass, whatever the interval, the splitting into fragments and the
\* checkpoints before: it is what a fresh normalizer returns for the whole text
\* appended as one fragment.
C8_FinalizeIsBatchRepair ==
    last_ret.op = "finalize"
        => /\ last_ret.ret = Some(NormalizerOutput(Concat(fragments)))
           /\ last_ret.ret =
                  finalize(append(IncrementalNormalizer(1), Concat(fragments)).self).ret

\* C8 witness: finalize after a checkpoint, with an interval above 1 and text split
\* into several fragments
C8_Witness ==
    /\ last_ret.op = "finalize"
    /\ normalizer._normalize_interval = 2
    /\ checkpoint.returned >= 1
    /\ Len(fragments) = 3
    /\ last_ret.ret.text # Concat(fragments)

WellFormed(d) ==
    Count(SplitLines(d), LAMBDA ln : ln = <<"u0060", "u0060", "u0060">>) % 2 = 0

\* C19: repair is idempotent on well-formed inputs: repair(repair(x)) = repair(x)
\* for every document x whose fenced blocks are closed.
C19_RepairIdempotent ==
    WellFormed(doc) /\ Len(repaired) >= 2 => repaired[2] = repaired[1]

\* in the text t every heading line has a blank line before it unless it is the first
\* line, and a blank line after it unless it is the last line
HeadingsIsolated(t) ==
    \A i \in 1..Len(SplitLines(t)) :
        _HEADING_LINE(SplitLines(t)[i]) =>
            /\ i = 1 \/ IsBlank(SplitLines(t)[i - 1])
            /\ i = Len(SplitLines(t)) \/ IsBlank(SplitLines(t)[i + 1])

C11_CacheMutex ==
    \A h \in DOMAIN handlers :
        /\ handlers[h].pc \in {"check_time", "age"} => _cache_time.some
        /\ handlers[h].pc \in {"return_cached", "return_new"} => _cache.some
        /\ handlers[h].pc = "fold" => handlers[h].mappings.some
        /\ handlers[h].exc # "TypeError"

\* C12: an apply that starts after a change of the rule table whose clear_cache
\* has returned never works with a snapshot that was loaded before that change.
C12_ClearForcesReload ==
    \A h \in DOMAIN handlers :
        handlers[h].pc = "fold" /\ handlers[h].mappings.some
            => handlers[h].mappings.loaded >= handlers[h].g.need

\* C13: a call of get_word_mappings that no other thread writes the cache during
\* reads the rule table exactly when, at its start, no snapshot is cached with
\* its stamp or the stamp is CACHE_TTL seconds old or more; it then leaves the
\* rows it read in the cache, stamped with the time of the call, and returns
\* them; otherwise it returns the cached snapshot and leaves the cache as it was,
\* whatever became of the table since the snapshot was loaded.
C13_ReloadExactlyWhenStale ==
    \A h \in DOMAIN handlers :
        handlers[h].pc = "fold" /\ handlers[h].g.alone
            => /\ handlers[h].g.queried <=> ~handlers[h].g.fresh.some
               /\ handlers[h].g.queried
                     => /\ handlers[h].mappings.some
                        /\ handlers[h].mappings.rules \in
                              { Mappings(ws) :
                                  ws \in QueryResults(audit.stores[handlers[h].mappings.loaded]) }
                        /\ handlers[h].g.kept = << handlers[h].mappings,
                                                   [some |-> TRUE, t |-> handlers[h].now] >>
               /\ ~handlers[h].g.queried
                     => /\ handlers[h].mappings = handlers[h].g.fresh
                        /\ handlers[h].g.kept[1] = handlers[h].g.fresh

\* a call CACHE_TTL - 1 seconds after the reload returns the snapshot of a table
\* that has changed since
C13_Witness ==
    \E h \in DOMAIN handlers :
        /\ handlers[h].pc = "fold"
        /\ handlers[h].g.alone
        /\ ~handlers[h].g.queried
        /\ handlers[h].mappings.some
        /\ handlers[h].mappings.loaded < Len(audit.stores)
        /\ handlers[h].now - handlers[h].g.kept[2].t = CACHE_TTL - 1

\* the rows in the order priority descending, then number of characters of the
\* pattern descending
RankedByCharacters(rows) ==
    { ws \in [1..Cardinality(rows) -> rows] :
         /\ \A i, j \in DOMAIN ws : i # j => ws[i] # ws[j]
         /\ \A i, j \in DOMAIN ws :
               i < j => \/ ws[i].priority > ws[j].priority
                        \/ /\ ws[i].priority = ws[j].priority
                           /\ Len(ws[i].word) >= Len(ws[j].word) }

\* C14: what apply returns is the fold over the text of the rules that were
\* active when the snapshot was loaded, in the order priority descending, then
\* pattern length descending, each rule working on the output of the one before.
C14_FoldInRankOrder ==
    \A h \in DOMAIN handlers :
        handlers[h].pc = "persist" /\ handlers[h].applied.some /\ handlers[h].mappings.some
            => \E ws \in RankedByCharacters(ActiveRows(audit.stores[handlers[h].mappings.loaded])) :
                  /\ ApplyRules(Mappings(ws), 1, handlers[h].reply0).exc = ""
                  /\ ApplyRules(Mappings(ws), 1, handlers[h].reply0).text = handlers[h].applied.text

\* every index of s at which pat starts
Occurrences(s, pat) == { k \in 1..Len(s) : StartsWithAt(s, k, pat) }

RECURSIVE ScanFrom(_, _, _)
\* the occurrences of pat that str.replace finds in s from i on: left to right,
\* each after the end of the one before
ScanFrom(s, i, pat) ==
    IF FindSeq(s, i, pat) = 0 THEN {}
    ELSE {FindSeq(s, i, pat)} \cup ScanFrom(s, FindSeq(s, i, pat) + Len(pat), pat)

\* the fold of the rule hi, then the rule lo, over t
FoldPair(hi, lo, t) == ApplyRules(Mappings(<< hi, lo >>), 1, t).text

\* the occurrence at k of the pattern of hi in t is replaced whole in the result
ReplacedWhole(hi, lo, t, k, result) ==
    result = FoldPair(hi, lo, Sub(t, 1, k - 1)) \o hi.replacement
             \o FoldPair(hi, lo, Sub(t, k + Len(hi.word), Len(t)))

\* two active literal rules, the pattern of the lower-ranked a part of the pattern
\* of the higher-ranked, no pattern a part of a replacement
NestedPairs(rows) ==
    { pair \in ActiveRows(rows) \X ActiveRows(rows) :
         /\ ActiveRows(rows) = { pair[1], pair[2] }
         /\ ~pair[1].is_regex /\ ~pair[2].is_regex
         /\ pair[1].priority > pair[2].priority
         /\ FindSeq(pair[1].word, 1, pair[2].word) # 0
         /\ \A x, y \in { pair[1], pair[2] } : FindSeq(x.replacement, 1, y.word) = 0 }

THE_EXAMPLE ==
    [hi |-> Row(<<"u5927", "u5409">>, <<"u975e", "u5e38", "u79ef", "u6781">>, FALSE, 10, 1),
     lo |-> Row(<<"u5409">>, <<"u597d">>, FALSE, 1, 1),
     text |-> <<"u4eca", "u5929", "u5927", "u5409">>,
     result |-> <<"u4eca", "u5929", "u975e", "u5e38", "u79ef", "u6781">>]

C16_DisabledIsNoOp ==
    ~filter_enabled
        => /\ _cache = NoSnapshot
           /\ _cache_time = NoTime
           /\ \A h \in DOMAIN handlers :
                 /\ handlers[h].pc \notin GWM_PCS \cup {"fold"}
                 /\ ~handlers[h].g.queried
                 /\ handlers[h].applied.some => handlers[h].applied.text = handlers[h].reply0

\* the reply of the example comes back unchanged from a table that holds the
\* rules of the example
C16_Witness ==
    /\ ~filter_enabled
    /\ { THE_EXAMPLE.hi, THE_EXAMPLE.lo } \subseteq ActiveRows(rule_store)
    /\ \E h \in DOMAIN handlers :
          /\ handlers[h].pc = "persist"
          /\ handlers[h].reply0 = THE_EXAMPLE.text
          /\ handlers[h].applied = [some |-> TRUE, text |-> THE_EXAMPLE.text]

\* the rule is literal, or its pattern compiles
Compiles(rule) == ~rule[3] \/ CompileError(rule[1]) = ""

\* C17: a regex rule whose pattern does not compile is skipped and nothing else:
\* apply does not raise, and what it returns is the fold of the other rules, in
\* their order, as if the failing rule were not there.
C17_FailingRuleSkipped ==
    \A h \in DOMAIN handlers :
        handlers[h].pc = "persist" /\ handlers[h].mappings.some
            => /\ handlers[h].exc = ""
               /\ handlers[h].applied.some
               /\ handlers[h].applied.text =
                     ApplyRules(SelectSeq(handlers[h].mappings.rules, Compiles), 1,
                                handlers[h].reply0).text

\* C18: when the filter pass of start_chat, send_chat or regenerate raises, the
\* request goes on: the reply it keeps, appends to the history as the assistant's
\* message and returns is the repaired text from before the filter.
C18_FilterFailureFallsBack ==
    \A h \in DOMAIN handlers :
        handlers[h].exc # ""
            => /\ handlers[h].pc \in {"persist", "idle"}
               /\ handlers[h].reply = handlers[h].reply0
               /\ handlers[h].pc = "idle"
                     => /\ handlers[h].ret = [some |-> TRUE, text |-> handlers[h].reply0]
                        /\ handlers[h].hist # << >>
                        /\ handlers[h].hist[Len(handlers[h].hist)] =
                              [role |-> "assistant", content |-> handlers[h].reply0]

\* a regenerate whose rule table could not be read has returned and stored the
\* repaired reply
C18_Witness ==
    \E h \in DOMAIN handlers :
        /\ handlers[h].pc = "idle"
        /\ handlers[h].path = "regenerate"
        /\ handlers[h].exc = "OperationalError"
        /\ handlers[h].g = NoGhost
        /\ handlers[h].reply0 = THE_EXAMPLE.text
        /\ handlers[h].ret = [some |-> TRUE, text |-> THE_EXAMPLE.text]
        /\ handlers[h].hist = << [role |-> "user", content |-> USER_MESSAGE],
                                 [role |-> "assistant", content |-> THE_EXAMPLE.text] >>

\* C27: in every text that append() or finalize() returns, each heading line has
\* a blank line before it unless it is the first line and a blank line after it
\* unless it is the last: the cleanup pass keeps the blank lines around headings.
C27_ReturnedHeadingsIsolated ==
    last_ret.ret.some => HeadingsIsolated(last_ret.ret.text)

\* the fenced code blocks of the text d, and the inline code spans outside them
ProtectedSpans(d) ==
    { _extract_placeholders(d, "_RE_FENCED", "F").store[k] :
         k \in 1..Len(_extract_placeholders(d, "_RE_FENCED", "F").store) }
    \cup
    { _extract_placeholders(_extract_placeholders(d, "_RE_FENCED", "F").text,
                            "_RE_INLINE", "I").store[k] :
         k \in 1..Len(_extract_placeholders(
                          _extract_placeholders(d, "_RE_FENCED", "F").text,
                          "_RE_INLINE", "I").store) }

\* C21: every fenced code block and every inline code span of the input of
\* normalize_markdown stands unchanged, character for character, in its output.
C21_ProtectedSpansUnchanged ==
    Len(repaired) >= 1
        => \A span \in ProtectedSpans(doc) : FindSeq(repaired[1], 1, span) # 0

(***************************************************************************)
(* The heading scan: brackets, field labels, structural lines              *)
(***************************************************************************)

\* the headings the scan met in doc, with what the inner loop did after each
Headings == IF scanned = << >> THEN << >> ELSE scanned[1]

\* the bracket example, and the same with an empty line before its last line
BracketDoc == Join(BRACKET_EXAMPLE, <<"\n">>)
BracketDocSpaced ==
    Join(<< BRACKET_EXAMPLE[1], BRACKET_EXAMPLE[2], << >>, BRACKET_EXAMPLE[3] >>, <<"\n">>)

\* '### U+6027 U+683C U+5206 U+6790 ( U+5F00 U+6717 )': the heading with the line that closes
\* its bracket
BracketHeading == BRACKET_EXAMPLE[1] \o <<" ">> \o BRACKET_EXAMPLE[2]

\* C22 as stated: the bracket example comes out as the merged heading, a blank
\* line, and the content line on a line of its own.
C22_ContentLineUnmerged ==
    (doc = BracketDoc /\ Len(repaired) >= 1)
        => repaired[1] = BracketHeading \o <<"\n", "\n">> \o BRACKET_EXAMPLE[3]

\* C22: the absorption for the balance ends with the line that restores it (the
\* line after that one is not absorbed for the balance); the content line of the
\* example, being short, is then absorbed by the short-line rule, so the example
\* comes out as one heading line; with an empty line before the content line it
\* comes out as the merged heading, a blank line and the content line.
C22_BalanceThenShortLine ==
    /\ (doc = BracketDoc /\ Len(repaired) >= 1)
           => repaired[1] = BracketHeading \o <<" ">> \o BRACKET_EXAMPLE[3]
    /\ (doc = BracketDocSpaced /\ Len(repaired) >= 1)
           => repaired[1] = BracketHeading \o <<"\n", "\n">> \o BRACKET_EXAMPLE[3]
    /\ \A n \in DOMAIN Headings : \A k \in 1..(Len(Headings[n].steps) - 1) :
           ( /\ Headings[n].steps[k].branch = "force"
             /\ _paren_balance(Headings[n].steps[k + 1].buffer) = 0 )
               => Headings[n].steps[k + 1].branch # "force"

\* the example was scanned and repaired: its second line absorbed for the balance,
\* its third by the short-line rule
C22_Witness ==
    /\ doc = BracketDoc
    /\ Len(repaired) >= 1
    /\ Len(Headings) = 1
    /\ Len(Headings[1].steps) = 2
    /\ Headings[1].steps[1].branch = "force"
    /\ Headings[1].steps[2].branch = "short"
    /\ Headings[1].steps[2].buffer = BracketHeading


\* the heading of the field-label example and the field that is glued to it
KeywordHeading == Sub(KEYWORD_EXAMPLE, 1, 14)
KeywordField == Sub(KEYWORD_EXAMPLE, 15, Len(KEYWORD_EXAMPLE))

\* C23: a '###' heading with the title U+51FA U+751F U+7ED3 U+6784 U+4E2A U+4EBA U+753B U+50CF
\* U+603B U+89C8 and the field U+5E74 U+67F1 U+FF1A U+4E59 U+5DF3 glued to it comes out as the heading
\* on a line of its own, a blank line, and a line that starts with the field.
C23_KeywordHeadingSplit ==
    ( /\ Len(repaired) >= 1
      /\ StartsWithAt(doc, 1, KEYWORD_EXAMPLE) )
        => /\ Len(SplitLines(repaired[1])) >= 3
           /\ SplitLines(repaired[1])[1] = KeywordHeading
           /\ SplitLines(repaired[1])[2] = << >>
           /\ StartsWithAt(SplitLines(repaired[1])[3], 1, KeywordField)

\* the example alone was repaired: heading, blank line, field
C23_Witness ==
    /\ doc = KEYWORD_EXAMPLE
    /\ Len(repaired) >= 1
    /\ repaired[1] = KeywordHeading \o <<"\n", "\n">> \o KeywordField


\* text[a..b] is well nested when the kinds of its brackets are left aside
WellNested(text, a, b) ==
    /\ Openers(text, a, b) = Closers(text, a, b)
    /\ \A m \in a..b : Openers(text, a, m) >= Closers(text, a, m)

\* some closing bracket of text has no matching opener: the bracket it would
\* close is missing or of another kind
UnmatchedCloser(text) ==
    \E k \in 1..Len(text) :
        /\ text[k] \in CLOSERS
        /\ ~ \E p \in 1..(k - 1) : text[p] = PairOf(text[k]) /\ WellNested(text, p + 1, k - 1)

\* every heading buffer the scan computed need_balance for, with the value it got
Balances ==
    { << Headings[n].first, Headings[n].need_balance >> : n \in DOMAIN Headings }
    \cup UNION { { << Headings[n].steps[k].buffer, Headings[n].steps[k].need_balance >> :
                     k \in DOMAIN Headings[n].steps } : n \in DOMAIN Headings }

\* C24: normalize_markdown returns a text for every document, and a list item
\* after the heading '# a)' stays a line of its own; whenever the heading buffer has a closing bracket without its opener, more
\* closers than openers included, need_balance is false and the line met is not
\* absorbed for the balance.
C24_AnomalyIsBalanced ==
    /\ Len(repaired) >= 1 => repaired[1] = normalize_markdown(doc)
    /\ (doc = <<"#", " ", "a", ")", "\n", "-", " ", "b">> /\ Len(repaired) >= 1)
           => repaired[1] = <<"#", " ", "a", ")", "\n", "\n", "-", " ", "b">>
    /\ \A b \in Balances :
           (UnmatchedCloser(b[1]) \/ Closers(b[1], 1, Len(b[1])) > Openers(b[1], 1, Len(b[1])))
               => ~b[2]
    /\ \A n \in DOMAIN Headings : \A k \in DOMAIN Headings[n].steps :
           UnmatchedCloser(Headings[n].steps[k].buffer)
               => Headings[n].steps[k].branch # "force"

\* a heading with more closers than openers met a non-blank line and the
\* document was repaired
C24_Witness ==
    /\ Len(repaired) >= 1
    /\ \E n \in DOMAIN Headings : \E k \in DOMAIN Headings[n].steps :
           /\ Closers(Headings[n].steps[k].buffer, 1, Len(Headings[n].steps[k].buffer))
                  > Openers(Headings[n].steps[k].buffer, 1, Len(Headings[n].steps[k].buffer))
           /\ Headings[n].steps[k].branch \in {"short", "stop_structural"}


\* C28 as stated: need_balance is true exactly when the heading buffer holds more
\* opening than closing bracket characters.
C28_NeedBalanceByCount ==
    \A b \in Balances :
        b[2] <=> Openers(b[1], 1, Len(b[1])) > Closers(b[1], 1, Len(b[1]))

\* what the scan computes instead: need_balance is true exactly when no closing
\* bracket of the heading buffer lacks its matching opener and the buffer holds
\* more opening than closing bracket characters
NeedBalanceByStack ==
    \A b \in Balances :
        b[2] <=> ( /\ ~UnmatchedCloser(b[1])
                   /\ Openers(b[1], 1, Len(b[1])) > Closers(b[1], 1, Len(b[1])) )

\* the iteration of heading n before iteration k that met a non-blank line, 0 if none
PreviousLine(n, k) ==
    IF \E m \in 1..(k - 1) : Headings[n].steps[m].branch # "blank"
    THEN CHOOSE m \in 1..(k - 1) :
             /\ Headings[n].steps[m].branch # "blank"
             /\ \A x \in (m + 1)..(k - 1) : Headings[n].steps[x].branch = "blank"
    ELSE 0

\* C29: while need_balance is true every non-blank line met is absorbed, whatever
\* its shape and whether or not a blank line came before it, joined to the buffer
\* with one space, and need_balance is computed again from the new buffer; and the
\* absorption for the balance ends on a line only if the buffer then holds as many
\* closing as opening brackets.
C29_ForcedUntilBalanced ==
    \A n \in DOMAIN Headings : \A k \in DOMAIN Headings[n].steps :
        /\ (Headings[n].steps[k].need_balance /\ Headings[n].steps[k].branch # "blank")
               => /\ Headings[n].steps[k].branch = "force"
                  /\ k < Len(Headings[n].steps)
                         => /\ Headings[n].steps[k + 1].buffer
                                   = Headings[n].steps[k].buffer \o <<" ">>
                                         \o Strip(Headings[n].steps[k].line)
                            /\ Headings[n].steps[k + 1].need_balance
                                   = (_paren_balance(Headings[n].steps[k + 1].buffer) > 0)
        /\ ( /\ Headings[n].steps[k].branch \notin {"blank", "force"}
             /\ PreviousLine(n, k) # 0
             /\ Headings[n].steps[PreviousLine(n, k)].branch = "force" )
               => Openers(Headings[n].steps[k].buffer, 1, Len(Headings[n].steps[k].buffer))
                      = Closers(Headings[n].steps[k].buffer, 1, Len(Headings[n].steps[k].buffer))


\* the line of doc that iteration k after heading n met (a line of the protected
\* text is the line of doc with the same index when no code span holds a line break)
DocLine(n, k) == SplitLines(doc)[Headings[n].steps[k].j]

\* C30: when need_balance is false, a line of the document that matches the
\* structural-line pattern or starts with a field-label prefix stops the absorption
\* and is not merged into the heading; a fenced code block on the line after the
\* heading '# a' stays a block of its own.
C30_StructuralLineStops ==
    /\ Len(SplitLines(doc)) = Len(SplitLines(Protected(doc)))
           => \A n \in DOMAIN Headings : \A k \in DOMAIN Headings[n].steps :
                  ( /\ ~Headings[n].steps[k].need_balance
                    /\ \/ _RE_STRUCTURAL(DocLine(n, k))
                       \/ StartsWithAny(Strip(DocLine(n, k)), _EXCLUDE_PREFIXES) )
                      => Headings[n].steps[k].branch
                             \in {"stop_blank", "stop_structural", "stop_prefix"}
    /\ ( /\ doc = <<"#", " ", "a", "\n", "u0060", "u0060", "u0060", "b",
                    "u0060", "u0060", "u0060">>
         /\ Len(repaired) >= 1 )
           => repaired[1] = <<"#", " ", "a", "\n", "\n", "u0060", "u0060", "u0060", "b",
                              "u0060", "u0060", "u0060">>


\* C25: every change of the rule table that an admin endpoint has answered was
\* followed by a completed clear_cache(), and an apply that starts after the answer
\* filters with the rules of the changed table (or of a later one): a rule that
\* was disabled is not applied, a rule that was enabled is.
C25_ApplyUsesMutatedRules ==
    /\ admin.pc = "off" => audit.cleared = Len(audit.stores)
    /\ \A h \in DOMAIN handlers :
           (handlers[h].pc = "fold" /\ handlers[h].mappings.some)
               => \E x \in handlers[h].g.need..Len(audit.stores) :
                      \E ws \in QueryResults(audit.stores[x]) :
                          handlers[h].mappings.rules = Mappings(ws)


(***************************************************************************)
(* Password reset                                                          *)
(***************************************************************************)

\* the requests before request i that carried a wrong code for the same reset
\* code and were rejected
RejectedBefore(i) ==
    { j \in 1..(i - 1) : /\ reset_log[j].row = reset_log[i].row
                         /\ reset_log[j].code = "wrong"
                         /\ reset_log[j].status = 400 }

\* C26: once MAX_FAILED_ATTEMPTS requests with a wrong code for the current reset
\* code of the email have been rejected, every later request for that code is
\* rejected, the one with the right code too; and the failed attempts recorded
\* for a code never go down from one request to a later one.
C26_AttemptsLimited ==
    \A i \in DOMAIN reset_log :
        reset_log[i].row # 0
            => /\ Cardinality(RejectedBefore(i)) >= MAX_FAILED_ATTEMPTS
                      => reset_log[i].status = 400
               /\ \A j \in 1..(i - 1) :
                      reset_log[j].row = reset_log[i].row
                          => reset_log[j].failed_attempts <= reset_log[i].failed_attempts


(***************************************************************************)
(* The heading scan: blank lines, content, placeholders, break markers     *)
(***************************************************************************)

\* the headings the scan of routers/chat.py met in doc
LegacyHeadings == IF legacy = << >> THEN << >> ELSE legacy[1]

\* in the scan hs, a non-blank line met after a skipped blank line with
\* need_balance false ends the merge, and a line absorbed as a short line has no
\* blank line between the heading and itself
BlankEndsMerge(hs) ==
    \A n \in DOMAIN hs : \A k \in DOMAIN hs[n].steps :
        /\ (hs[n].steps[k].seen_blank /\ ~hs[n].steps[k].need_balance
                /\ hs[n].steps[k].branch # "blank")
               => hs[n].steps[k].branch \notin {"short", "force"}
        /\ hs[n].steps[k].branch = "short" => ~hs[n].steps[k].seen_blank

\* C31: in the heading scan of normalize_markdown, of app/chat/markdown_utils.py
\* and of its copy in app/routers/chat.py, once a blank line was skipped and
\* need_balance is false the next non-blank line ends the merge, short line or
\* tail token or not; a short line is absorbed only with no blank line before it.
C31_BlankLineEndsMerge ==
    /\ BlankEndsMerge(Headings)
    /\ BlankEndsMerge(LegacyHeadings)


\* the lines the scan of doc read and the list out it built
ScanLines_in == SplitLines(Protected(doc))
ScanOut == IF scanned = << >> THEN << >> ELSE scanned[2]

\* the lines that the iterations of heading h absorbed, stripped, in order
AbsorbedParts(h) ==
    [ k \in 1..Cardinality({ x \in DOMAIN h.steps : h.steps[x].branch \in {"force", "short"} }) |->
        Strip(h.steps[CHOOSE x \in DOMAIN h.steps :
                         /\ h.steps[x].branch \in {"force", "short"}
                         /\ Cardinality({ y \in 1..x : h.steps[y].branch \in {"force", "short"} })
                                = k].line) ]

RECURSIVE ExpectedOut(_, _, _)
\* the lines from index i copied through, each heading of hs replaced by its merged
\* line and an empty line, the scan going on at the first line the merge left
ExpectedOut(lines, hs, i) ==
    IF i > Len(lines) THEN << >>
    ELSE IF \E n \in DOMAIN hs : hs[n].i = i
         THEN << hs[CHOOSE n \in DOMAIN hs : hs[n].i = i].merged, << >> >>
              \o ExpectedOut(lines, hs, hs[CHOOSE n \in DOMAIN hs : hs[n].i = i].j)
         ELSE << lines[i] >> \o ExpectedOut(lines, hs, i + 1)

\* C32: the heading scan loses and duplicates nothing: the list out is the input
\* lines in order, each heading with the lines merged into it replaced by one line
\* (the heading and the absorbed lines, stripped, joined by one space) and one
\* empty line; the iterations of a merge read the lines after the heading one by
\* one, the line that stops the merge is the first line of the rest, and the text
\* without its white space is the same before and after the scan.
C32_ScanKeepsContent ==
    scanned # << >> =>
        /\ ScanOut = ExpectedOut(ScanLines_in, Headings, 1)
        /\ RemoveChars(Join(ScanOut, <<"\n">>), WS)
               = RemoveChars(Join(ScanLines_in, <<"\n">>), WS)
        /\ \A n \in DOMAIN Headings :
               /\ Headings[n].merged
                      = Join(<< Headings[n].first >> \o AbsorbedParts(Headings[n]), <<" ">>)
               /\ \A k \in DOMAIN Headings[n].steps :
                      /\ Headings[n].steps[k].j = Headings[n].i + k
                      /\ Headings[n].steps[k].branch \notin {"blank", "force", "short"}
                             => /\ k = Len(Headings[n].steps)
                                /\ Headings[n].j = Headings[n].steps[k].j
               /\ (Headings[n].steps # << >>
                   /\ Headings[n].steps[Len(Headings[n].steps)].branch
                          \in {"blank", "force", "short"})
                      => Headings[n].j = Len(ScanLines_in) + 1
               /\ n < Len(Headings) => Headings[n].j <= Headings[n + 1].i

\* a heading absorbed a line, a later line stopped the merge and was copied
\* through
C32_Witness ==
    /\ scanned # << >>
    /\ \E n \in DOMAIN Headings :
           /\ Len(Headings[n].steps) >= 2
           /\ Headings[n].steps[1].branch = "short"
           /\ Headings[n].steps[Len(Headings[n].steps)].branch = "stop_long"
           /\ Headings[n].j <= Len(ScanLines_in)
           /\ \E p \in DOMAIN ScanOut : ScanOut[p] = ScanLines_in[Headings[n].j]


\* the tags that the protection of the text d inserts: one for each fenced block,
\* then one for each inline span of the text with its fenced blocks replaced
InsertedTags(d) ==
    { PlaceholderTag("F", k - 1) :
        k \in 1..Len(_extract_placeholders(d, "_RE_FENCED", "F").store) }
    \cup
    { PlaceholderTag("I", k - 1) :
        k \in 1..Len(_extract_placeholders(
                         _extract_placeholders(d, "_RE_FENCED", "F").text,
                         "_RE_INLINE", "I").store) }

\* the document whose inline span holds a fenced block
NestedCode == <<"u0060", "a", " ">> \o FENCE_B \o <<" ", "c", "u0060">>

C34_BreakMarkerConverted ==
    (doc \in BreakDocuments /\ StartsWithAt(doc, Len(doc) - 7, BR_LOWER)
         /\ Len(repaired) >= 1)
        => /\ repaired[1] = <<"a", " ", "b">>
           /\ FindSeq(repaired[1], 1, <<"\n", "\n">>) = 0
           /\ scrub_br_block(doc) = <<"a">> \o _BR_REPLACEMENT \o <<"b">>


\* C35: the buffer of fragments only grows, by one fragment at its end and only
\* in append; finalize leaves the buffer and the counter of fragments as they
\* are, and a second finalize with no append in between returns the same text.
C35_BufferAppendOnly ==
    [][ /\ normalizer'._raw_chunks # normalizer._raw_chunks
            => /\ last_ret'.op = "append"
               /\ Len(normalizer'._raw_chunks) = Len(normalizer._raw_chunks) + 1
               /\ SubSeq(normalizer'._raw_chunks, 1, Len(normalizer._raw_chunks))
                      = normalizer._raw_chunks
               /\ normalizer'._raw_chunks = fragments'
        /\ last_ret'.op = "finalize"
            => /\ normalizer'._raw_chunks = normalizer._raw_chunks
               /\ normalizer'._token_count = normalizer._token_count
               /\ finalize(normalizer').ret = last_ret'.ret
               /\ finalize(normalizer').self._raw_chunks = normalizer._raw_chunks
               /\ finalize(normalizer').self._token_count = normalizer._token_count
      ]_vars

\* finalize has returned the text of a buffer of three fragments
C35_Witness ==
    /\ last_ret.op = "finalize"
    /\ Len(normalizer._raw_chunks) = 3
    /\ normalizer._raw_chunks = fragments
    /\ normalizer._token_count = 3
    /\ last_ret.ret.text # << >>


\* the stream has emitted Done or Error
TerminalEmitted == \E k \in 1..Len(events) : events[k].type \in {"done", "error"}

\* C36: a stream whose consumer keeps reading emits its terminal event and then
\* completes the persistence step; the persistence step of such a stream never
\* starts before the terminal event, and from the end of the upstream (the final
\* text event or the pull that ends the loop) the stream goes on to the terminal event.
C36_StreamTerminates ==
    /\ ([](~cancelled)) => <>(TerminalEmitted /\ pc = "closed")
    /\ [](~cancelled /\ pc \in {"finally_user", "finally_assistant", "finally_db", "closed"}
             => TerminalEmitted)
    /\ [](pc = "yield_final" => <>(cancelled \/ TerminalEmitted))
    /\ [](TerminalEmitted => <>(pc = "closed"))

\* a stream of several fragments was read to its end and is persisted
C36_Witness ==
    /\ ~cancelled
    /\ pc = "closed"
    /\ TerminalEmitted
    /\ Len(fragments) >= 2
    /\ Len(history) >= 2
    /\ history[Len(history)].role = "assistant"


\* C37: once a stream on a conversation has finished its cleanup, the history
\* holds its user message immediately followed by its own assistant reply, also
\* when another stream on the same conversation cleans up at the same time.
C37_PairNotSplit ==
    \A n \in DOMAIN streams :
        streams[n].pc = "closed"
            => \E k \in 1..(Len(history) - 1) :
                   /\ history[k] = [role |-> "user", content |-> MessageOf(n)]
                   /\ history[k + 1] = [role |-> "assistant", content |-> streams[n].final]


\* C38: regenerate is all-or-nothing on the history: after a successful call the
\* history is the one before the call with its last assistant message replaced
\* (same length); after a call that raised, the history is the one before the call.
C38_RegenerateAllOrNothing ==
    regen.pc = "returned"
        => /\ regen.ret = "ok"
               => /\ Len(history) = Len(regen.before)
                  /\ SubSeq(history, 1, Len(history) - 1)
                         = SubSeq(regen.before, 1, Len(regen.before) - 1)
                  /\ history[Len(history)].role = "assistant"
           /\ regen.ret # "ok" => history = regen.before


\* C39: a code with max_uses = N >= 1 admits at most N successful registrations:
\* its used_count is at most N and is the number of its usage rows, which is the
\* number of requests answered with success.
C39_AtMostMaxUses ==
    /\ inv_code.used_count <= inv_code.max_uses
    /\ inv_code.used_count = Cardinality(usages)
    /\ Cardinality({ r \in DOMAIN register : register[r].ret = 200 }) <= inv_code.max_uses


====
